---------------------------- MODULE Spec2Model ----------------------------
(***************************************************************************)
(* A model of the sampling core of DGL:                                    *)
(*   - the weighted samplers of include/dgl/sample_utils.h                 *)
(*     (AliasSampler, CDFSampler, TreeSampler), and                        *)
(*   - the neighbor sampler of src/graph/sampler.cc                        *)
(*     (GetUniformSample, GetNonUniformSample, ArrayHeap, SampleSubgraph,  *)
(*     ConstructNodeFlow, RandomWalk).                                     *)
(*                                                                         *)
(* Vectors are sequences; the code's 0-based element v[i] is At(v, i).     *)
(* Weights are exact (integers, in units of 1/Grid of a weight unit), so   *)
(* a random variate of [0, total) is one of the grid points 0..total-1.    *)
(***************************************************************************)
EXTENDS Integers, Sequences, FiniteSets, TLC

VARIABLES
  \* ---- weighted samplers (sample_utils.h)
  kind,        \* "alias" | "cdf" | "tree": the class under test
  replace,     \* the template parameter `replace`
  prob0,       \* the weight vector given to the constructor
  sampler,     \* the object's fields, by their names in the source
  drawn,       \* the indices Draw() returned since construction / ResetState
  status,      \* "ok" | "fatal" (LOG(FATAL) was hit) | "ub" (out-of-bounds access)
  lastOp,      \* "construct" | "draw" | "reset"
  dirtyReset,  \* the last ResetState came after at least one Draw
  \* ---- neighbor sampling (sampler.cc)
  nfs,         \* the state of one NeighborUniformSample call
  sel,         \* one call of GetUniformSample / GetNonUniformSample
  rw,          \* the state of one RandomWalk call
  \* ---- array utilities (array.cc)
  arrs,        \* the array storage and the handles of one Clone scenario
  \* ---- the retry loop of Draw() (sample_utils.h)
  call         \* the locals of a Draw() whose retry loop is running

svars == <<kind, replace, prob0, sampler, drawn, status, lastOp, dirtyReset>>
ovars == <<sel, rw, arrs, call>>
vars == <<kind, replace, prob0, sampler, drawn, status, lastOp, dirtyReset, nfs,
          sel, rw, arrs, call>>

----------------------------------------------------------------------------
(* Bounds of the model *)

MaxN == 3              \* longest weight vector
MaxWeight == 2         \* largest weight, in weight units
Grid == 2              \* grid points per weight unit (and per alias slot)
MaxDrawsReplace == 2   \* Draw() calls followed between resets, with replacement

----------------------------------------------------------------------------
(* Helpers *)

At(v, i) == v[i + 1]

Range(v) == {v[i] : i \in 1..Len(v)}

Distinct(v) == \A i, j \in 1..Len(v) : i # j => v[i] # v[j]

RECURSIVE SumSeq(_)
SumSeq(v) == IF v = <<>> THEN 0 ELSE Head(v) + SumSeq(Tail(v))

Iota(n) == [i \in 1..n |-> i - 1]

SeqsUpTo(S, n) == UNION {[1..k -> S] : k \in 1..n}

(* RandomEngine::Uniform(0, hi) on the grid: a value of [0, hi); with
   hi = 0 the interval is degenerate and the lower end is returned. *)
Uniform(hi) == IF hi > 0 THEN 0..(hi - 1) ELSE {0}

(* What a read past the end of a vector of indices may yield: any index,
   n standing for every value outside [0, n). *)
Garbage(n) == 0..n

----------------------------------------------------------------------------
(* AliasSampler.  U[i] holds the numerator of the code's U[i] over the
   common denominator N (every value the table construction produces is a
   multiple of 1/N), so avg = accum / N is stored as accum. *)

\* the object before the constructor body runs: empty vectors
AliasEmpty ==
  [N |-> 0, accum |-> 0, taken |-> 0, K |-> <<>>, U |-> <<>>,
   _prob |-> <<>>, used |-> <<>>, id_mapping |-> <<>>]

\* Map(x): consecutive indices to unused elements
AliasMap(s, repl, x) == IF repl THEN x ELSE At(s.id_mapping, x)

\* the indices i with !used[i], ascending (the loop over prob)
UnusedIds(used, n) == SelectSeq(Iota(n), LAMBDA x : ~At(used, x))

\* a residual that keeps the whole of the larger item
ResidualKeepsAll(p_o, p_u, avgN) == p_o

\* p_o + p_u - avg: what is left of the larger item after it filled a slot
Residual(p_o, p_u, avgN) == p_o + p_u - avgN

\* the pairing loop: while (!under.empty() && !over.empty())
RECURSIVE AliasPair(_, _, _, _, _)
AliasPair(under, over, K, U, avgN) ==
  IF under = <<>> \/ over = <<>> THEN [K |-> K, U |-> U]
  ELSE LET i_u == Head(under)[1]
           p_u == Head(under)[2]
           i_o == Head(over)[1]
           p_o == Head(over)[2]
           K1 == [K EXCEPT ![i_u + 1] = i_o]
           U1 == [U EXCEPT ![i_u + 1] = p_u]
           over1 == IF p_o + p_u > 2 * avgN
                      THEN Append(over, <<i_o, Residual(p_o, p_u, avgN)>>) ELSE over
           under1 == IF ~(p_o + p_u > 2 * avgN) /\ p_o + p_u < 2 * avgN
                       THEN Append(under, <<i_o, Residual(p_o, p_u, avgN)>>) ELSE under
       IN AliasPair(Tail(under1), Tail(over1), K1, U1, avgN)

\* Reconstruct(prob): rebuild the alias table from the unused elements
AliasReconstruct(s, repl, prob) ==
  LET ids == UnusedIds(s.used, Len(prob))
      N == Len(ids)
      accum == SumSeq([k \in 1..N |-> At(prob, ids[k])])
      s1 == [s EXCEPT !.N = N, !.accum = accum, !.taken = 0,
                      !.id_mapping = IF repl THEN @ ELSE ids]
      pN(i) == N * At(prob, AliasMap(s1, repl, i))
      slots == Iota(N)
      pairs == [k \in 1..N |-> <<slots[k], pN(slots[k])>>]
      over == SelectSeq(pairs, LAMBDA q : q[2] > accum)
      under == SelectSeq(pairs, LAMBDA q : ~(q[2] > accum))
      KU == AliasPair(under, over, slots, [k \in 1..N |-> accum], accum)
  IN IF N = 0 THEN s1      \* LOG(FATAL): K and U are not touched
     ELSE [s1 EXCEPT !.K = KU.K, !.U = KU.U]

\* used.resize(prob.size()) without the fill: elements keep their marks
ResizeUsed(used, n) == [i \in 1..n |-> IF i <= Len(used) THEN used[i] ELSE FALSE]

\* used.resize(prob.size()); std::fill(used.begin(), used.end(), false)
ClearUsed(used, n) == [i \in 1..n |-> FALSE]

\* ResetState(prob)
AliasResetState(s, repl, prob) ==
  AliasReconstruct([s EXCEPT !.used = ClearUsed(@, Len(prob)),
                             !._prob = IF repl THEN @ ELSE prob],
                   repl, prob)

\* the constructor
AliasSampler(repl, prob) == AliasResetState(AliasEmpty, repl, prob)

\* a sampler that never rebuilds its table
NeedsRebuildNever(s) == FALSE

\* if (2 * taken >= accum)
NeedsRebuild(s) == 2 * s.taken >= s.accum

\* the acceptance test of the retry loops: an always-true variant
IsUnusedAlways(s, rst) == TRUE

\* if (!used[rst])
IsUnused(s, rst) == ~At(s.used, rst)

(* The selection of one loop iteration, for the grid point dice of
   [0, N * Grid): slot i = floor(dice), p = (dice - i) * avg with the avg
   computed on entry to Draw (accum0 / N0), compared with U[Map(i)].
   U has N elements: when Map(i) >= N the read is past its end and either
   branch may be taken. *)
AliasSelect(s, repl, accum0, N0, dice) ==
  LET i == dice \div Grid
      f == dice % Grid
      m == AliasMap(s, repl, i)
      own == AliasMap(s, repl, i)
      alias == AliasMap(s, repl, At(s.K, i))
  IN IF m < Len(s.U)
       THEN IF f * accum0 * s.N <= At(s.U, m) * Grid * N0 THEN {own} ELSE {alias}
       ELSE {own, alias}

(* while (true) with no iteration that can be accepted: Draw() does not
   return *)
NoReturn(s, accepted) ==
  IF accepted = {} THEN {[status |-> "hang", sampler |-> s, rst |-> -1]} ELSE {}

(* Draw(): the set of outcomes [status, sampler, rst] over every value the
   generator can return.  Iterations of the retry loop that hit a used
   element change nothing, so an outcome is one accepted iteration. *)
AliasDraw(s, repl) ==
  LET accum0 == s.accum
      N0 == s.N
      s1 == IF ~repl /\ NeedsRebuild(s)
              THEN AliasReconstruct(s, repl, s._prob) ELSE s
      picks == UNION {AliasSelect(s1, repl, accum0, N0, dice) :
                        dice \in Uniform(s1.N * Grid)}
  IN IF s1.N = 0 THEN {[status |-> "fatal", sampler |-> s1, rst |-> -1]}
     ELSE IF repl THEN {[status |-> "ok", sampler |-> s1, rst |-> r] : r \in picks}
     ELSE {[status |-> "ok",
            sampler |-> [s1 EXCEPT !.used[r + 1] = TRUE,
                                   !.taken = @ + At(s1._prob, r)],
            rst |-> r] : r \in {x \in picks : IsUnused(s1, x)}}
          \cup NoReturn(s1, {x \in picks : IsUnused(s1, x)})

----------------------------------------------------------------------------
(* CDFSampler *)

CDFEmpty ==
  [N |-> 0, accum |-> 0, taken |-> 0, _prob |-> <<>>, cdf |-> <<>>,
   used |-> <<>>, id_mapping |-> <<>>]

\* Reconstruct(prob): the prefix sums of the unused elements' weights
CDFReconstruct(s, repl, prob) ==
  LET ids == UnusedIds(s.used, Len(prob))
      N == Len(ids)
      partial(k) == SumSeq([j \in 1..k |-> At(prob, ids[j])])
  IN [s EXCEPT !.N = N, !.accum = partial(N), !.taken = 0,
               !.id_mapping = IF repl THEN @ ELSE ids,
               !.cdf = [k \in 1..(N + 1) |-> partial(k - 1)]]

\* ResetState(prob)
CDFResetState(s, repl, prob) ==
  CDFReconstruct([s EXCEPT !.used = ClearUsed(@, Len(prob)),
                           !._prob = IF repl THEN @ ELSE prob],
                 repl, prob)

\* the constructor
CDFSampler(repl, prob) == CDFResetState(CDFEmpty, repl, prob)

(* std::lower_bound(cdf.begin(), cdf.end(), p) - cdf.begin() for
   p = std::max(u, eps): the number of elements smaller than p, where eps
   (the variate 0 raised to the smallest positive value) lies above 0 and
   below every grid point but 0. *)
CDFLowerBound(cdf, u) ==
  Cardinality({k \in 1..Len(cdf) : IF u = 0 THEN cdf[k] <= 0 ELSE cdf[k] < u})

(* Map(lower_bound(...) - 1): an element of id_mapping, or what the read
   past its end yields *)
CDFMap(s, repl, x, n) ==
  IF repl THEN {x}
  ELSE IF x < Len(s.id_mapping) THEN {At(s.id_mapping, x)} ELSE Garbage(n)

(* Draw(): the set of outcomes over every value the generator can return.
   An index outside [0, n) makes _prob[rst] and used[rst] out-of-bounds
   accesses (without replacement), or is returned as it is (with). *)
CDFDraw(s, repl, n) ==
  LET s1 == IF ~repl /\ NeedsRebuild(s)
              THEN CDFReconstruct(s, repl, s._prob) ELSE s
      picks == UNION {CDFMap(s1, repl, CDFLowerBound(s1.cdf, u) - 1, n) :
                        u \in Uniform(s1.accum)}
  IN IF s1.N = 0 THEN {[status |-> "fatal", sampler |-> s1, rst |-> -1]}
     ELSE IF repl THEN {[status |-> "ok", sampler |-> s1, rst |-> r] : r \in picks}
     ELSE {[status |-> "ub", sampler |-> s1, rst |-> r] :
              r \in {x \in picks : x < 0 \/ x >= n}}
          \cup
          {[status |-> "ok",
            sampler |-> [s1 EXCEPT !.used[r + 1] = TRUE,
                                   !.taken = @ + At(s1._prob, r)],
            rst |-> r] : r \in {x \in picks : x >= 0 /\ x < n /\ IsUnused(s1, x)}}
          \cup NoReturn(s1, {x \in picks : x < 0 \/ x >= n \/ IsUnused(s1, x)})

----------------------------------------------------------------------------
(* TreeSampler.  weight[0] is unused, weight[1] is the root, the leaves
   are weight[num_leafs .. 2 * num_leafs - 1]. *)

RECURSIVE TreeNumLeafs(_, _)
\* num_leafs = 1; while (num_leafs < prob.size()) num_leafs *= 2
TreeNumLeafs(num_leafs, n) ==
  IF num_leafs < n THEN TreeNumLeafs(num_leafs * 2, n) ELSE num_leafs

RECURSIVE TreeSumUp(_, _)
\* for (i = num_leafs - 1; i >= 1; --i) weight[i] = weight[2i] + weight[2i+1]
TreeSumUp(weight, i) ==
  IF i < 1 THEN weight
  ELSE TreeSumUp([weight EXCEPT ![i + 1] = At(weight, 2 * i) + At(weight, 2 * i + 1)],
                 i - 1)

\* ResetState(prob)
TreeResetState(s, prob) ==
  LET zero == [k \in 1..Len(s.weight) |-> 0]
      leaves == [k \in 1..Len(s.weight) |->
                   IF k - 1 >= s.num_leafs /\ k - 1 < s.num_leafs + Len(prob)
                     THEN At(prob, k - 1 - s.num_leafs) ELSE zero[k]]
  IN [s EXCEPT !.weight = TreeSumUp(leaves, s.num_leafs - 1)]

\* the constructor
TreeSampler(prob) ==
  LET num_leafs == TreeNumLeafs(1, Len(prob))
      N == num_leafs * 2
  IN TreeResetState([weight |-> [k \in 1..N |-> 0], N |-> N, num_leafs |-> num_leafs],
                    prob)

\* shift = static_cast<Idx>(p > pivot && w_r > 0)
TreeShift(p, pivot, w_r) == p > pivot /\ w_r > 0

RECURSIVE TreeDescend(_, _, _, _)
\* while (cur < num_leafs): the leaf the variate p leads to
TreeDescend(s, cur, p, accum) ==
  IF ~(cur < s.num_leafs) THEN cur
  ELSE LET w_l == At(s.weight, cur * 2)
           w_r == At(s.weight, cur * 2 + 1)
           pivot == accum + w_l
           shift == IF TreeShift(p, pivot, w_r) THEN 1 ELSE 0
       IN TreeDescend(s, cur * 2 + shift, p, IF shift = 1 THEN pivot ELSE accum)

RECURSIVE TreeRemove(_, _, _)
\* while (cur >= 1): zero the leaf and re-sum its ancestors
TreeRemove(weight, num_leafs, cur) ==
  IF ~(cur >= 1) THEN weight
  ELSE TreeRemove([weight EXCEPT ![cur + 1] =
                     IF cur >= num_leafs THEN 0
                     ELSE At(weight, cur * 2) + At(weight, cur * 2 + 1)],
                  num_leafs, cur \div 2)

\* Draw(): the set of outcomes over every value the generator can return
TreeDraw(s, repl) ==
  {LET cur == TreeDescend(s, 1, p, 0)
   IN [status |-> "ok",
       sampler |-> IF repl THEN s
                   ELSE [s EXCEPT !.weight = TreeRemove(@, s.num_leafs, cur)],
       rst |-> cur - s.num_leafs] : p \in Uniform(At(s.weight, 1))}

----------------------------------------------------------------------------
(* The samplers as a state machine: construction, then Draw() and
   ResetState(prob0) in any order. *)

Weights == {Grid * w : w \in 0..MaxWeight}

NewSampler(k, repl, prob) ==
  CASE k = "alias" -> AliasSampler(repl, prob)
    [] k = "cdf" -> CDFSampler(repl, prob)
    [] k = "tree" -> TreeSampler(prob)

ResetState(k, s, repl, prob) ==
  CASE k = "alias" -> AliasResetState(s, repl, prob)
    [] k = "cdf" -> CDFResetState(s, repl, prob)
    [] k = "tree" -> TreeResetState(s, prob)

DrawOutcomes(k, s, repl, n) ==
  CASE k = "alias" -> AliasDraw(s, repl)
    [] k = "cdf" -> CDFDraw(s, repl, n)
    [] k = "tree" -> TreeDraw(s, repl)

\* without replacement one Draw() more than the population is followed
DrawCap == IF replace THEN MaxDrawsReplace ELSE Len(prob0) + 1

NoNodeFlow == [pc |-> "off"]

NoSelector == [pc |-> "off"]

NoWalk == [pc |-> "off"]

NoArrays == [pc |-> "off"]

NoDraw == [pc |-> "idle"]

SamplerInit ==
  /\ kind \in {"alias", "cdf", "tree"}
  /\ replace \in BOOLEAN
  /\ prob0 \in SeqsUpTo(Weights, MaxN)
  /\ sampler = NewSampler(kind, replace, prob0)
  /\ drawn = <<>>
  /\ status = "ok"
  /\ lastOp = "construct"
  /\ dirtyReset = FALSE
  /\ nfs = NoNodeFlow
  /\ sel = NoSelector
  /\ rw = NoWalk
  /\ arrs = NoArrays
  /\ call = NoDraw

Draw ==
  /\ status = "ok"
  /\ Len(drawn) < DrawCap
  /\ \E o \in DrawOutcomes(kind, sampler, replace, Len(prob0)) :
       /\ sampler' = o.sampler
       /\ status' = o.status
       /\ drawn' = IF o.status \in {"fatal", "hang"} THEN drawn
                   ELSE Append(drawn, o.rst)
  /\ lastOp' = "draw"
  /\ UNCHANGED <<kind, replace, prob0, dirtyReset, nfs, ovars>>

Reset ==
  /\ status = "ok"
  /\ sampler' = ResetState(kind, sampler, replace, prob0)
  /\ drawn' = <<>>
  /\ lastOp' = "reset"
  /\ dirtyReset' = (drawn # <<>>)
  /\ UNCHANGED <<kind, replace, prob0, status, nfs, ovars>>

SamplerNext == Draw \/ Reset

SamplerSpec == SamplerInit /\ [][SamplerNext]_vars

----------------------------------------------------------------------------
(* Properties of the weighted samplers (checked under SamplerSpec) *)

AllPositive(prob) == \A i \in 1..Len(prob) : prob[i] > 0

Population == 0..(Len(prob0) - 1)

\* the indices returned before the latest one
Earlier(v) == SubSeq(v, 1, Len(v) - 1)

(* C1: without replacement and with all weights positive, the Draw() calls
   of an AliasSampler or a CDFSampler since construction or the last
   ResetState returned pairwise distinct indices of [0, n), and a Draw()
   fails only once all n indices have been returned. *)
C1_AliasCdfDistinct ==
  (kind \in {"alias", "cdf"} /\ ~replace /\ AllPositive(prob0)) =>
     /\ Distinct(drawn)
     /\ Range(drawn) \subseteq Population
     /\ status \in {"ok", "fatal"}
     /\ status = "fatal" => Len(drawn) = Len(prob0)

\* all n indices of a 3-element population were drawn, across a table rebuild
C1_Witness ==
  /\ kind = "alias" /\ ~replace /\ AllPositive(prob0)
  /\ Len(prob0) >= 3 /\ Len(drawn) = Len(prob0)
  /\ sampler.N < Len(prob0)
  /\ status = "ok"

(* C2: without replacement and with all weights positive, the first n
   Draw() calls of a TreeSampler return pairwise distinct indices, for
   every variate of [0, root weight). *)
C2_TreeDistinct ==
  (kind = "tree" /\ ~replace /\ AllPositive(prob0) /\ Len(drawn) <= Len(prob0)) =>
     Distinct(drawn)

(* C3: without replacement, a Draw() issued when all n indices have been
   drawn since construction or the last ResetState never returns an index
   (it ends in a fatal error), for each of the three samplers. *)
C3_ExhaustedDrawFails ==
  (~replace /\ drawn # <<>>) => Range(Earlier(drawn)) # Population

(* C4: with a positive total weight, in both replacement modes, every
   Draw() of the three samplers returns an index of [0, n): none is the
   result of an id_mapping lookup past the end of the vector. *)
C4_IndexInRange ==
  SumSeq(prob0) > 0 => (status # "ub" /\ Range(drawn) \subseteq Population)

(* C5: after any sequence of Draw() calls, ResetState(w) with the weights
   w of the construction leaves the sampler in the state of a freshly
   constructed sampler over w, for the three samplers and both modes. *)
C5_ResetIsFresh ==
  lastOp = "reset" => sampler = NewSampler(kind, replace, prob0)

\* after a ResetState that followed draws, all n indices were drawn again
C5_Witness ==
  /\ dirtyReset /\ lastOp = "draw" /\ ~replace /\ status = "ok"
  /\ Len(prob0) >= 2 /\ Range(drawn) = Population

----------------------------------------------------------------------------
(* Neighbor sampling (src/graph/sampler.cc): helpers *)

\* v[lo .. hi), 0-based
Slice(v, lo, hi) == SubSeq(v, lo + 1, hi)

RECURSIVE SortedOrder(_, _)
(* the positions S of keys in ascending key order (std::sort; the keys
   sorted by the program are pairwise distinct, equal keys keep their order) *)
SortedOrder(keys, S) ==
  IF S = {} THEN <<>>
  ELSE LET m == CHOOSE i \in S :
                  \A j \in S : keys[i] < keys[j] \/ (keys[i] = keys[j] /\ i <= j)
       IN <<m>> \o SortedOrder(keys, S \ {m})

\* std::sort of a vector of integers
SortInts(v) == LET o == SortedOrder(v, DOMAIN v) IN [k \in DOMAIN v |-> v[o[k]]]

\* a segment left in the order it was queued in
NoSortSegment(v, keys, lo, hi) == v

\* std::sort(v.begin() + lo, v.begin() + hi, by key)
SortSegment(v, keys, lo, hi) ==
  LET o == SortedOrder(keys, (lo + 1)..hi)
  IN [k \in DOMAIN v |-> IF k > lo /\ k <= hi THEN v[o[k - lo]] ELSE v[k]]

\* the elements of a finite set of integers, ascending
RECURSIVE SetToSortedSeq(_)
SetToSortedSeq(S) ==
  IF S = {} THEN <<>>
  ELSE LET m == CHOOSE x \in S : \A y \in S : x <= y
       IN <<m>> \o SetToSortedSeq(S \ {m})

(* RandomSample(set_size, num): rand_r(seed) % set_size is inserted into a
   hash set until it holds num elements; every num-element subset of
   [0, set_size) can result.  The callers sort the output, which arrives
   in the hash set's order. *)
RandomSample(set_size, num) ==
  {S \in SUBSET (0..(set_size - 1)) : Cardinality(S) = num}

RECURSIVE NegateScan(_, _, _, _, _)
\* the two loops of NegateArray: it is the position in nz_idxs, i the index
NegateScan(nz_idxs, it, i, arr_size, out) ==
  IF i < arr_size /\ it <= Len(nz_idxs)
    THEN IF nz_idxs[it] = i
           THEN NegateScan(nz_idxs, it + 1, i + 1, arr_size, out)
           ELSE NegateScan(nz_idxs, it, i + 1, arr_size, Append(out, i))
  ELSE IF i < arr_size
    THEN NegateScan(nz_idxs, it, i + 1, arr_size, Append(out, i))
  ELSE out

\* NegateArray(nz_idxs, arr_size, out): ok is the CHECK_GT on entry
NegateArray(nz_idxs, arr_size) ==
  [ok |-> arr_size > nz_idxs[Len(nz_idxs)],
   out |-> NegateScan(nz_idxs, 1, 0, arr_size, <<>>)]

\* a direct draw of one position less than asked for
DirectIdxsOneShort(ver_len, max_num_neighbor) ==
  {[ok |-> TRUE, out |-> SetToSortedSeq(S)] :
     S \in RandomSample(ver_len, max_num_neighbor - 1)}

\* the index vector of the direct branch: RandomSample, then std::sort
DirectIdxs(ver_len, max_num_neighbor) ==
  {[ok |-> TRUE, out |-> SetToSortedSeq(S)] :
     S \in RandomSample(ver_len, max_num_neighbor)}

\* the sample of excluded positions used as it is, not negated
ExcludeIdxsNotNegated(ver_len, max_num_neighbor) ==
  {[ok |-> TRUE, out |-> SetToSortedSeq(S)] :
     S \in RandomSample(ver_len, ver_len - max_num_neighbor)}

\* the index vector of the exclusion branch: the complement of a sample
ExcludeIdxs(ver_len, max_num_neighbor) ==
  {NegateArray(SetToSortedSeq(S), ver_len) :
     S \in RandomSample(ver_len, ver_len - max_num_neighbor)}

\* the two CHECKs on sorted_idxs
IdxsVerified(sorted_idxs, max_num_neighbor) ==
  /\ Len(sorted_idxs) = max_num_neighbor
  /\ \A i \in 2..Len(sorted_idxs) : sorted_idxs[i] > sorted_idxs[i - 1]

\* the edge id of the first position, whatever position was sampled
EdgeAtFront(edge_id_list, idx) == At(edge_id_list, 0)

\* out_edge->push_back(edge_id_list[idx])
EdgeAt(edge_id_list, idx) == At(edge_id_list, idx)

(* GetUniformSample: the possible outputs [ok, ver, edge] appended to
   out_ver and out_edge, for a slice of ver_len neighbors *)
GetUniformSample(edge_id_list, vid_list, ver_len, max_num_neighbor) ==
  IF ver_len <= max_num_neighbor
    THEN {[ok |-> TRUE, ver |-> vid_list, edge |-> edge_id_list]}
  ELSE {[ok |-> r.ok /\ IdxsVerified(r.out, max_num_neighbor),
         ver |-> [k \in DOMAIN r.out |-> At(vid_list, r.out[k])],
         edge |-> [k \in DOMAIN r.out |-> EdgeAt(edge_id_list, r.out[k])]] :
          r \in IF ver_len > max_num_neighbor * 2
                  THEN DirectIdxs(ver_len, max_num_neighbor)
                  ELSE ExcludeIdxs(ver_len, max_num_neighbor)}

----------------------------------------------------------------------------
(* ConstructNodeFlow.  c is the call's arguments: neighbor_list, edge_list,
   layer_offsets, sub_vers (elements [first, second]), neigh_pos (elements
   [id, pos, num_edges]), num_edges, num_hops.  A failed CHECK clears ok. *)

Firsts(sub_vers) == [k \in DOMAIN sub_vers |-> sub_vers[k].first]

Ids(neigh_pos) == [k \in DOMAIN neigh_pos |-> neigh_pos[k].id]

RECURSIVE SortLayers(_, _, _)
\* the std::sort of every layer's segment of sub_vers, by vertex id
SortLayers(sub_vers, layer_offsets, layer_id) ==
  IF layer_id < 0 THEN sub_vers
  ELSE SortLayers(SortSegment(sub_vers, Firsts(sub_vers),
                              At(layer_offsets, layer_id),
                              At(layer_offsets, layer_id + 1)),
                  layer_offsets, layer_id - 1)

RECURSIVE SortNeighPos(_, _, _)
\* the std::sort of every expanded layer's segment of neigh_pos, by vertex id
SortNeighPos(neigh_pos, layer_offsets, layer_id) ==
  IF layer_id < 0 THEN neigh_pos
  ELSE SortNeighPos(SortSegment(neigh_pos, Ids(neigh_pos),
                                At(layer_offsets, layer_id),
                                At(layer_offsets, layer_id + 1)),
                    layer_offsets, layer_id - 1)

\* an insert that is dropped
MapInsertDropped(map, id, ver_id) == map

\* layer_ver_maps[layer_id].insert(pair(id, ver_id)): a present key stays
MapInsert(map, id, ver_id) == map @@ (id :> ver_id)

RECURSIVE AssignIds(_, _, _, _, _)
(* the first loop nest (layers num_hops-1 .. 0): node_mapping and the
   per-layer tables from original id to local id; i runs over the layer *)
AssignIds(sub_vers, layer_offsets, layer_id, i, acc) ==
  IF layer_id < 0 THEN acc
  ELSE IF ~(i < At(layer_offsets, layer_id + 1))
    THEN AssignIds(sub_vers, layer_offsets, layer_id - 1,
                   IF layer_id >= 1 THEN At(layer_offsets, layer_id - 1) ELSE 0, acc)
  ELSE AssignIds(sub_vers, layer_offsets, layer_id, i + 1,
         [acc EXCEPT
            !.node_mapping = Append(@, At(sub_vers, i).first),
            !.layer_ver_maps[layer_id] = MapInsert(@, At(sub_vers, i).first, acc.ver_id),
            !.ver_id = @ + 1,
            !.ok = @ /\ At(sub_vers, i).second = layer_id])

\* ImmutableGraph::CSR(num_vertices, num_edges): indptr of num_vertices + 1 zeros
CSRIndptr(num_vertices) == [k \in 1..(num_vertices + 1) |-> 0]

\* ImmutableGraph::CSR::GetDegree(start, end)
GetDegree(indptr, start, end) == At(indptr, end) - At(indptr, start)

\* a lookup in the table of the row's own layer
NeighLayerSame(layer_id) == layer_id

\* layer_ver_maps[layer_id + 1]: the table the neighbors of a row are looked up in
NeighLayer(layer_id) == layer_id + 1

\* an offset that is the layer's size instead of the running total
LayerOffNextNoAccum(prev, hi, lo) == hi - lo

\* layer_off_data[out_layer_idx] + layer_offsets[layer_id + 1] - layer_offsets[layer_id]
LayerOffNext(prev, hi, lo) == prev + hi - lo

\* the row of one expanded vertex: its columns, its edge ids, the CHECKs
RowOf(c, sub_vers, neigh_pos, maps, layer_id, i) ==
  LET dst_id == At(sub_vers, i).first
      pos == At(neigh_pos, i).pos
      num_edges == At(neigh_pos, i).num_edges
      neighs == Slice(c.neighbor_list, pos, pos + num_edges)
  IN [ok |-> /\ dst_id = At(neigh_pos, i).id
             /\ pos <= Len(c.neighbor_list)
             /\ (c.neighbor_list = <<>> => num_edges = 0)
             /\ \A k \in DOMAIN neighs : neighs[k] \in DOMAIN maps[NeighLayer(layer_id)],
      cols |-> [k \in DOMAIN neighs |->
                  IF neighs[k] \in DOMAIN maps[NeighLayer(layer_id)]
                    THEN maps[NeighLayer(layer_id)][neighs[k]] ELSE -1],
      edges |-> Slice(c.edge_list, pos, pos + num_edges)]

RECURSIVE BuildRows(_, _, _, _, _, _, _)
(* the second loop nest (layers num_hops-2 .. 0): one CSR row per expanded
   vertex, and layer_off_data *)
BuildRows(c, sub_vers, neigh_pos, maps, layer_id, i, acc) ==
  IF layer_id < 0 THEN acc
  ELSE IF ~(i < At(c.layer_offsets, layer_id + 1))
    THEN BuildRows(c, sub_vers, neigh_pos, maps, layer_id - 1,
                   IF layer_id >= 1 THEN At(c.layer_offsets, layer_id - 1) ELSE 0,
                   [acc EXCEPT
                      !.layer_off[acc.out_layer_idx + 2] =
                         LayerOffNext(At(acc.layer_off, acc.out_layer_idx),
                                      At(c.layer_offsets, layer_id + 1),
                                      At(c.layer_offsets, layer_id)),
                      !.out_layer_idx = @ + 1])
  ELSE LET row == RowOf(c, sub_vers, neigh_pos, maps, layer_id, i)
       IN BuildRows(c, sub_vers, neigh_pos, maps, layer_id, i + 1,
            [acc EXCEPT
               !.ok = @ /\ row.ok,
               !.indices = @ \o row.cols,
               !.edge_mapping = @ \o row.edges,
               !.indptr[acc.row_idx + 2] = At(acc.indptr, acc.row_idx) + Len(row.cols),
               !.row_idx = @ + 1])

RECURSIVE FlowOffsets(_, _, _, _, _)
\* the loop that copies the flow offsets: i < layer_offsets.size() - 2
FlowOffsets(indptr, layer_off, n, i, flow_off) ==
  IF ~(i < n) THEN flow_off
  ELSE FlowOffsets(indptr, layer_off, n, i + 1,
         Append(flow_off, At(flow_off, i)
                  + GetDegree(indptr, At(layer_off, i + 1), At(layer_off, i + 2))))

ConstructNodeFlow(c) ==
  LET num_hops == c.num_hops
      num_vertices == Len(c.sub_vers)
      sub_vers == SortLayers(c.sub_vers, c.layer_offsets, num_hops - 1)
      a == AssignIds(sub_vers, c.layer_offsets, num_hops - 1,
                     At(c.layer_offsets, num_hops - 1),
                     [node_mapping |-> <<>>,
                      layer_ver_maps |-> [l \in 0..(num_hops - 1) |-> <<>>],
                      ver_id |-> 0, ok |-> TRUE])
      deepest == At(c.layer_offsets, num_hops) - At(c.layer_offsets, num_hops - 1)
      neigh_pos == SortNeighPos(c.neigh_pos, c.layer_offsets, num_hops - 2)
      b == BuildRows(c, sub_vers, neigh_pos, a.layer_ver_maps, num_hops - 2,
                     IF num_hops >= 2 THEN At(c.layer_offsets, num_hops - 2) ELSE 0,
                     [ok |-> TRUE, indices |-> <<>>, edge_mapping |-> <<>>,
                      indptr |-> CSRIndptr(num_vertices),
                      row_idx |-> deepest,
                      layer_off |-> [k \in 1..(num_hops + 1) |->
                                       IF k = 2 THEN deepest ELSE 0],
                      out_layer_idx |-> 1])
      flow_off == FlowOffsets(b.indptr, b.layer_off, Len(c.layer_offsets) - 2, 0, <<0>>)
  IN [ok |-> /\ a.ok
             /\ Len(a.node_mapping) = num_vertices
             /\ b.ok
             /\ b.row_idx = num_vertices
             /\ At(b.indptr, b.row_idx) = c.num_edges
             /\ b.out_layer_idx = num_hops
             /\ At(b.layer_off, b.out_layer_idx) = num_vertices
             /\ Len(flow_off) - 1 = num_hops - 1
             /\ At(flow_off, num_hops - 1) = c.num_edges,
      node_mapping |-> a.node_mapping,
      edge_mapping |-> b.edge_mapping,
      layer_offsets |-> b.layer_off,
      flow_offsets |-> flow_off,
      indptr |-> b.indptr,
      indices |-> b.indices]

----------------------------------------------------------------------------
(* SamplerOp::NeighborUniformSample -> SampleSubgraph -> ConstructNodeFlow
   as a state machine.  nfs holds the call's arguments and the locals of
   SampleSubgraph, by their names in the source; nfs.pc is the position:
     "start"   on entry
     "layer"   at the test of the loop over layer_id
     "expand"  at the test of the loop over idx
     "done"    the NodeFlow nfs.nf was returned
     "failed"  a CHECK failed *)

MaxSeeds == 2      \* longest seed array
MaxFanout == 2     \* largest expand_factor
MaxHops == 2       \* largest num_hops of the public entry point

\* adjacency lists: Adj[v + 1] is the neighbor slice of vertex v
PathGraph == << <<1>>, <<2>>, <<3>>, <<>> >>
CycleGraph == << <<1>>, <<2>>, <<0>> >>
HubGraph == << <<1, 1, 0, 2, 2>>, <<0, 2>>, <<>> >>
TriangleGraph == << <<1, 2>>, <<0, 2>>, <<0, 1>> >>
\* a vertex of degree 3: the exclusion branch of a fanout of 2
FanGraph == << <<1, 0, 1>>, <<0>> >>
\* every graph on two vertices with at most two edges out of each
PairGraphs == [1..2 -> {<<>>} \cup SeqsUpTo({0, 1}, 2)]

\* an ascending slice longer than the largest fanout
AscendingFanGraph == << <<0, 1, 2>>, <<>>, <<>> >>

Graphs == {PathGraph, CycleGraph, HubGraph, TriangleGraph, FanGraph, AscendingFanGraph}
            \cup PairGraphs

RECURSIVE Flatten(_)
Flatten(vv) == IF vv = <<>> THEN <<>> ELSE Head(vv) \o Flatten(Tail(vv))

(* the CSR read through orig_csr: indptr, indices (col_list) and edge_ids
   (val_list); the edge at position p carries the id E - 1 - p *)
CSROf(adj) ==
  LET indices == Flatten(adj)
      E == Len(indices)
  IN [indptr |-> [k \in 1..(Len(adj) + 1) |-> Len(Flatten(SubSeq(adj, 1, k - 1)))],
      indices |-> indices,
      edge_ids |-> [p \in 1..E |-> E - p]]

NumVertices(csr) == Len(csr.indptr) - 1

\* ver_len = *(indptr + dst_id + 1) - *(indptr + dst_id)
VerLen(csr, dst_id) == At(csr.indptr, dst_id + 1) - At(csr.indptr, dst_id)

\* col_list + *(indptr + dst_id), ver_len elements
VidList(csr, dst_id) ==
  Slice(csr.indices, At(csr.indptr, dst_id), At(csr.indptr, dst_id + 1))

\* val_list + *(indptr + dst_id), ver_len elements
EdgeIdList(csr, dst_id) ==
  Slice(csr.edge_ids, At(csr.indptr, dst_id), At(csr.indptr, dst_id + 1))

\* an insertion that reports every vertex as new
InsertedAlways(sub_ver_map, v) == TRUE

\* ret.second of sub_ver_map.insert(v): the vertex was not in the set
Inserted(sub_ver_map, v) == v \notin sub_ver_map

RECURSIVE AddSeedVertices(_, _, _, _)
\* the loop "add seed vertices": s is [sub_ver_map, sub_vers]
AddSeedVertices(seed, i, num_seeds, s) ==
  IF ~(i < num_seeds) THEN s
  ELSE AddSeedVertices(seed, i + 1, num_seeds,
         [sub_ver_map |-> s.sub_ver_map \cup {At(seed, i)},
          sub_vers |-> IF Inserted(s.sub_ver_map, At(seed, i))
                         THEN Append(s.sub_vers, [first |-> At(seed, i), second |-> 0])
                         ELSE s.sub_vers])

\* a neighbor queued with the hop depth of the vertex it was sampled for
SameLevel(cur_node_level) == cur_node_level

\* cur_node_level + 1: the hop depth of a queued neighbor
NextLevel(cur_node_level) == cur_node_level + 1

RECURSIVE AddNeighbors(_, _, _, _)
\* the loop that queues the sampled neighbors not yet seen in this layer
AddNeighbors(tmp_sampled_src_list, i, cur_node_level, s) ==
  IF ~(i < Len(tmp_sampled_src_list)) THEN s
  ELSE AddNeighbors(tmp_sampled_src_list, i + 1, cur_node_level,
         [sub_ver_map |-> s.sub_ver_map \cup {At(tmp_sampled_src_list, i)},
          sub_vers |-> IF Inserted(s.sub_ver_map, At(tmp_sampled_src_list, i))
                         THEN Append(s.sub_vers,
                                     [first |-> At(tmp_sampled_src_list, i),
                                      second |-> NextLevel(cur_node_level)])
                         ELSE s.sub_vers])

\* a table that keeps the vertices of the layers before
KeptVerMap(sub_ver_map) == sub_ver_map

\* sub_ver_map.clear() on entering a layer
ClearedVerMap(sub_ver_map) == {}

\* an entry point that asks for two layers more than num_hops
TwoMoreHops(num_hops) == num_hops + 2

\* NeighborUniformSample: SampleSubgraph is called with num_hops + 1
EntryNumHops(num_hops) == num_hops + 1

NoSampler == [N |-> 0]

NodeFlowInit ==
  /\ kind = "none" /\ replace = FALSE /\ prob0 = <<>> /\ sampler = NoSampler
  /\ drawn = <<>> /\ status = "ok" /\ lastOp = "none" /\ dirtyReset = FALSE
  /\ sel = NoSelector /\ rw = NoWalk /\ arrs = NoArrays /\ call = NoDraw
  /\ \E adj \in Graphs, hops \in 0..MaxHops, expand_factor \in 0..MaxFanout :
       \E seeds \in {<<>>} \cup SeqsUpTo(0..(Len(adj) - 1), MaxSeeds) :
         nfs = [pc |-> "start",
                csr |-> CSROf(adj),
                seeds |-> seeds,
                hops |-> hops,
                \* NeighborUniformSample passes num_hops + 1 and expand_factor
                num_hops |-> EntryNumHops(hops),
                num_neighbor |-> expand_factor,
                sub_ver_map |-> {},
                sub_vers |-> <<>>,
                neigh_pos |-> <<>>,
                neighbor_list |-> <<>>,
                edge_list |-> <<>>,
                layer_offsets |-> [k \in 1..(EntryNumHops(hops) + 1) |-> 0],
                num_edges |-> 0,
                layer_id |-> 0,
                idx |-> 0,
                nf |-> [ok |-> FALSE]]

\* SampleSubgraph up to the loop over layer_id
AddSeeds ==
  /\ nfs.pc = "start"
  /\ LET s == AddSeedVertices(nfs.seeds, 0, Len(nfs.seeds),
                              [sub_ver_map |-> {}, sub_vers |-> <<>>])
     IN nfs' = [nfs EXCEPT !.sub_ver_map = s.sub_ver_map,
                           !.sub_vers = s.sub_vers,
                           !.layer_offsets[1] = 0,
                           !.layer_offsets[2] = Len(s.sub_vers),
                           !.layer_id = 1,
                           !.pc = "layer"]
  /\ UNCHANGED <<svars, ovars>>

\* the loop over layer_id is entered: sub_ver_map.clear(), idx starts
BeginLayer ==
  /\ nfs.pc = "layer"
  /\ nfs.layer_id < nfs.num_hops
  /\ nfs' = [nfs EXCEPT !.sub_ver_map = ClearedVerMap(@),
                        !.idx = At(nfs.layer_offsets, nfs.layer_id - 1),
                        !.pc = "expand"]
  /\ UNCHANGED <<svars, ovars>>

\* one iteration of the loop over idx: the vertex sub_vers[idx] is expanded
SampleVertex ==
  /\ nfs.pc = "expand"
  /\ nfs.idx < At(nfs.layer_offsets, nfs.layer_id)
  /\ LET dst_id == At(nfs.sub_vers, nfs.idx).first
         cur_node_level == At(nfs.sub_vers, nfs.idx).second
         ver_len == VerLen(nfs.csr, dst_id)
     IN \E r \in GetUniformSample(EdgeIdList(nfs.csr, dst_id), VidList(nfs.csr, dst_id),
                                  ver_len, nfs.num_neighbor) :
          IF ~(r.ok /\ Len(r.ver) = Len(r.edge))
            THEN nfs' = [nfs EXCEPT !.pc = "failed"]
          ELSE LET s == AddNeighbors(r.ver, 0, cur_node_level,
                                     [sub_ver_map |-> nfs.sub_ver_map,
                                      sub_vers |-> nfs.sub_vers])
               IN nfs' = [nfs EXCEPT
                            !.neigh_pos = Append(@, [id |-> dst_id,
                                                     pos |-> Len(nfs.neighbor_list),
                                                     num_edges |-> Len(r.ver)]),
                            !.neighbor_list = @ \o r.ver,
                            !.edge_list = @ \o r.edge,
                            !.num_edges = @ + Len(r.ver),
                            !.sub_ver_map = s.sub_ver_map,
                            !.sub_vers = s.sub_vers,
                            !.idx = @ + 1]
  /\ UNCHANGED <<svars, ovars>>

\* the loop over idx ends: layer_offsets[layer_id + 1] and its CHECK_EQ
EndLayer ==
  /\ nfs.pc = "expand"
  /\ ~(nfs.idx < At(nfs.layer_offsets, nfs.layer_id))
  /\ LET next == At(nfs.layer_offsets, nfs.layer_id) + Cardinality(nfs.sub_ver_map)
     IN nfs' = [nfs EXCEPT !.layer_offsets[nfs.layer_id + 2] = next,
                           !.layer_id = @ + 1,
                           !.pc = IF next = Len(nfs.sub_vers) THEN "layer" ELSE "failed"]
  /\ UNCHANGED <<svars, ovars>>

\* the loop over layer_id ends: ConstructNodeFlow and the return
BuildNodeFlow ==
  /\ nfs.pc = "layer"
  /\ ~(nfs.layer_id < nfs.num_hops)
  /\ LET nf == ConstructNodeFlow(nfs)
     IN nfs' = [nfs EXCEPT !.nf = nf, !.pc = IF nf.ok THEN "done" ELSE "failed"]
  /\ UNCHANGED <<svars, ovars>>

NodeFlowNext == AddSeeds \/ BeginLayer \/ SampleVertex \/ EndLayer \/ BuildNodeFlow

NodeFlowSpec == NodeFlowInit /\ [][NodeFlowNext]_vars

----------------------------------------------------------------------------
(* Properties of the NodeFlow (checked under NodeFlowSpec) *)

NFDone == nfs.pc = "done"

NF == nfs.nf

\* the number of layers of the returned NodeFlow
NumLayers == Len(NF.layer_offsets) - 1

\* the local ids of output layer j (0 is the deepest hop)
OutLayer(j) == {r \in 0..(Len(NF.node_mapping) - 1) :
                  At(NF.layer_offsets, j) <= r /\ r < At(NF.layer_offsets, j + 1)}

\* the column ids of row r of the compact adjacency
NFRow(r) == Slice(NF.indices, At(NF.indptr, r), At(NF.indptr, r + 1))

\* the hop depth that output layer j holds
HopOf(j) == NumLayers - 1 - j

\* the neighbors SampleSubgraph recorded for vertex v when it expanded hop d
SampledOf(d, v) ==
  LET k == CHOOSE k \in (At(nfs.layer_offsets, d) + 1)..At(nfs.layer_offsets, d + 1) :
                nfs.neigh_pos[k].id = v
  IN Slice(nfs.neighbor_list, nfs.neigh_pos[k].pos,
           nfs.neigh_pos[k].pos + nfs.neigh_pos[k].num_edges)

Min(a, b) == IF a < b THEN a ELSE b

NonDecreasing(v) == \A i \in 1..(Len(v) - 1) : v[i] <= v[i + 1]

\* the number of adjacency entries in the rows of output layer j
EntriesOfLayer(j) ==
  LET lo == At(NF.layer_offsets, j)
      hi == At(NF.layer_offsets, j + 1)
  IN SumSeq([k \in 1..(hi - lo) |-> Len(NFRow(lo + k - 1))])

(* C6: uniform sampling never fails, and in the NodeFlow it returns the
   row of every vertex of a non-deepest layer has min(deg, fanout) entries
   (so a vertex without neighbors has an empty row), the rows of the
   deepest layer are empty, and a layer holds only vertices that some row
   of the next layer refers to. *)
C6_RowLengths ==
  /\ nfs.pc # "failed"
  /\ NFDone =>
       /\ \A j \in 0..(NumLayers - 1) : \A r \in OutLayer(j) :
            Len(NFRow(r)) = IF j = 0 THEN 0
                            ELSE Min(VerLen(nfs.csr, At(NF.node_mapping, r)),
                                     nfs.num_neighbor)
       /\ \A j \in 0..(NumLayers - 2) : \A c \in OutLayer(j) :
            \E r \in OutLayer(j + 1) : c \in Range(NFRow(r))

\* a vertex without neighbors and a vertex with more neighbors than the
\* fanout were both expanded
C6_Witness ==
  /\ NFDone /\ nfs.num_neighbor >= 1
  /\ \E j \in 1..(NumLayers - 1) : \E r1, r2 \in OutLayer(j) :
       /\ VerLen(nfs.csr, At(NF.node_mapping, r1)) = 0
       /\ VerLen(nfs.csr, At(NF.node_mapping, r2)) > nfs.num_neighbor
       /\ Len(NFRow(r2)) = nfs.num_neighbor

(* C7: sampling never fails, and in the NodeFlow it returns layer_offsets
   starts at 0, is non-decreasing and ends at |node_mapping|; flow_offsets
   starts at 0, is non-decreasing and ends at |edge_mapping|; and
   flow_offsets[j+1] - flow_offsets[j] is the number of adjacency entries
   in the rows of output layer j+1. *)
C7_Offsets ==
  /\ nfs.pc # "failed"
  /\ NFDone =>
       /\ At(NF.layer_offsets, 0) = 0
       /\ NonDecreasing(NF.layer_offsets)
       /\ At(NF.layer_offsets, NumLayers) = Len(NF.node_mapping)
       /\ Len(NF.flow_offsets) = NumLayers
       /\ At(NF.flow_offsets, 0) = 0
       /\ NonDecreasing(NF.flow_offsets)
       /\ At(NF.flow_offsets, NumLayers - 1) = Len(NF.edge_mapping)
       /\ \A j \in 0..(NumLayers - 2) :
            At(NF.flow_offsets, j + 1) - At(NF.flow_offsets, j)
              = EntriesOfLayer(j + 1)

\* three layers, edges in both blocks
C7_Witness ==
  /\ NFDone /\ NumLayers = 3
  /\ 0 < At(NF.flow_offsets, 1)
  /\ At(NF.flow_offsets, 1) < At(NF.flow_offsets, 2)
  /\ 0 < At(NF.layer_offsets, 1)

(* C8: every column id c stored in row r of output layer j >= 1 is a
   local id of output layer j-1 (layer_offsets[j-1] <= c < layer_offsets[j],
   so c < layer_offsets[-1]), and node_mapping[c] is one of the neighbors
   sampled for node_mapping[r], a neighbor of it in the graph. *)
C8_ColumnsInAdjacentLayer ==
  NFDone =>
    \A j \in 1..(NumLayers - 1) : \A r \in OutLayer(j) :
      \A k \in DOMAIN NFRow(r) :
        LET c == NFRow(r)[k] IN
          /\ At(NF.layer_offsets, j - 1) <= c
          /\ c < At(NF.layer_offsets, j)
          /\ c < At(NF.layer_offsets, NumLayers)
          /\ At(NF.node_mapping, c) \in Range(SampledOf(HopOf(j), At(NF.node_mapping, r)))
          /\ At(NF.node_mapping, c) \in Range(VidList(nfs.csr, At(NF.node_mapping, r)))

\* a row whose vertex also lies, as a neighbor, in the layer it refers to
C8_Witness ==
  /\ NFDone /\ NumLayers >= 2
  /\ \E j \in 1..(NumLayers - 1) : \E r \in OutLayer(j) :
       /\ NFRow(r) # <<>>
       /\ \E c \in OutLayer(j - 1) : At(NF.node_mapping, c) = At(NF.node_mapping, r)

(* C9: node_mapping lists the layers deepest hop first and the seed layer
   last, the original ids are strictly ascending inside each layer, and a
   local id of the compact adjacency is the position of its vertex in
   node_mapping: row r read through node_mapping is the neighbor list
   sampled for node_mapping[r]. *)
C9_NodeMappingOrder ==
  NFDone =>
    /\ \A j \in 0..(NumLayers - 1) :
         /\ {At(NF.node_mapping, r) : r \in OutLayer(j)}
              = {nfs.sub_vers[k].first :
                   k \in {k \in DOMAIN nfs.sub_vers : nfs.sub_vers[k].second = HopOf(j)}}
         /\ \A r \in OutLayer(j) :
              (r + 1) \in OutLayer(j) => At(NF.node_mapping, r) < At(NF.node_mapping, r + 1)
    /\ {At(NF.node_mapping, r) : r \in OutLayer(NumLayers - 1)} = Range(nfs.seeds)
    /\ \A j \in 1..(NumLayers - 1) : \A r \in OutLayer(j) :
         [k \in DOMAIN NFRow(r) |-> At(NF.node_mapping, NFRow(r)[k])]
           = SampledOf(HopOf(j), At(NF.node_mapping, r))

\* a layer that was queued in descending order, with a row of two columns
C9_Witness ==
  /\ NFDone /\ NumLayers >= 2
  /\ \E k \in 1..(Len(nfs.sub_vers) - 1) :
       /\ nfs.sub_vers[k].second = nfs.sub_vers[k + 1].second
       /\ nfs.sub_vers[k].first > nfs.sub_vers[k + 1].first
       /\ nfs.sub_vers[k].second >= 1
  /\ \E r \in OutLayer(NumLayers - 1) : Len(NFRow(r)) >= 2

(* C10: no vertex id occurs twice within a layer, neither in the queue
   sub_vers at any moment nor in a layer of the returned NodeFlow (the
   same id may occur in different layers). *)
C10_LayerDedup ==
  /\ nfs.pc # "off" => Distinct(nfs.sub_vers)
  /\ NFDone =>
       \A j \in 0..(NumLayers - 1) : \A r1, r2 \in OutLayer(j) :
         r1 # r2 => At(NF.node_mapping, r1) # At(NF.node_mapping, r2)

\* a repeated seed, a neighbor sampled twice through parallel edges, and a
\* vertex that lies in two layers
C10_Witness ==
  /\ NFDone
  /\ ~Distinct(nfs.seeds)
  /\ \E r \in 0..(Len(NF.node_mapping) - 1) : ~Distinct(NFRow(r))
  /\ \E r1, r2 \in 0..(Len(NF.node_mapping) - 1) :
       r1 # r2 /\ At(NF.node_mapping, r1) = At(NF.node_mapping, r2)

\* the queue holds vertex v with hop depth d
Queued(v, d) == \E q \in DOMAIN nfs.sub_vers :
                  nfs.sub_vers[q] = [first |-> v, second |-> d]

\* the neighbors recorded by the k-th expansion (neigh_pos[k])
RecordedNeighbors(k) ==
  Slice(nfs.neighbor_list, nfs.neigh_pos[k].pos,
        nfs.neigh_pos[k].pos + nfs.neigh_pos[k].num_edges)

(* C11 (as the code has it): the layer of hop depth d + 1 holds every
   neighbor sampled for a vertex of hop depth d, also one that an earlier
   layer already holds, and it holds nothing else. *)
C11_LayerHoldsAllSampled ==
  nfs.pc \notin {"off", "start"} =>
    /\ \A k \in DOMAIN nfs.neigh_pos :
         \A x \in Range(RecordedNeighbors(k)) :
           Queued(x, nfs.sub_vers[k].second + 1)
    /\ \A q \in DOMAIN nfs.sub_vers :
         nfs.sub_vers[q].second >= 1 =>
           \E k \in DOMAIN nfs.neigh_pos :
             /\ nfs.sub_vers[k].second + 1 = nfs.sub_vers[q].second
             /\ nfs.sub_vers[q].first \in Range(RecordedNeighbors(k))

\* a returned NodeFlow in which a vertex of hop depth 2 is also a seed
C11_Witness ==
  /\ NFDone
  /\ \E v \in 0..(NumVertices(nfs.csr) - 1) : Queued(v, 0) /\ Queued(v, 2)

(* C11 (as stated): a layer holds only vertices first reached at its hop
   depth; a vertex present in an earlier layer is not added to a later one. *)
C11_FirstReachedOnly ==
  nfs.pc # "off" =>
    \A q1, q2 \in DOMAIN nfs.sub_vers :
      nfs.sub_vers[q1].first = nfs.sub_vers[q2].first => q1 = q2

(* C12: with uniform sampling, for every position p of the compact
   adjacency, in row r with column id c, the original slice of
   node_mapping[r] has a position that holds the neighbor node_mapping[c]
   together with the edge id edge_mapping[p]. *)
C12_EdgeMappingJoinsRow ==
  NFDone =>
    /\ Len(NF.edge_mapping) = Len(NF.indices)
    /\ \A r \in 0..(Len(NF.node_mapping) - 1) :
         \A p \in At(NF.indptr, r)..(At(NF.indptr, r + 1) - 1) :
           LET v == At(NF.node_mapping, r)
               c == At(NF.indices, p)
           IN \E q \in DOMAIN VidList(nfs.csr, v) :
                /\ VidList(nfs.csr, v)[q] = At(NF.node_mapping, c)
                /\ EdgeIdList(nfs.csr, v)[q] = At(NF.edge_mapping, p)

\* a row of two entries sampled out of a longer slice with parallel edges
C12_Witness ==
  /\ NFDone
  /\ \E r \in 0..(Len(NF.node_mapping) - 1) :
       /\ Len(NFRow(r)) = 2
       /\ VerLen(nfs.csr, At(NF.node_mapping, r)) > nfs.num_neighbor
       /\ ~Distinct(VidList(nfs.csr, At(NF.node_mapping, r)))
       /\ At(NF.edge_mapping, At(NF.indptr, r))
            # EdgeIdList(nfs.csr, At(NF.node_mapping, r))[1]

\* the largest slice length of the graph
MaxDegree(csr) ==
  CHOOSE m \in {VerLen(csr, v) : v \in 0..(NumVertices(csr) - 1)} :
    \A v \in 0..(NumVertices(csr) - 1) : VerLen(csr, v) <= m

RECURSIVE BfsLayer(_, _, _)
\* unsampled expansion: the vertices at the end of a walk of d edges from a seed
BfsLayer(csr, seeds, d) ==
  IF d = 0 THEN Range(seeds)
  ELSE UNION {Range(VidList(csr, v)) : v \in BfsLayer(csr, seeds, d - 1)}

\* the vertices whose distance from the seeds is d
FirstReached(csr, seeds, d) ==
  BfsLayer(csr, seeds, d) \ UNION {BfsLayer(csr, seeds, e) : e \in 0..(d - 1)}

\* the ids of the edges from a vertex at distance d to one at distance d + 1
ShortestPathEdges(csr, seeds, d) ==
  UNION {{EdgeIdList(csr, u)[q] :
            q \in {q \in DOMAIN VidList(csr, u) :
                     VidList(csr, u)[q] \in FirstReached(csr, seeds, d + 1)}} :
         u \in FirstReached(csr, seeds, d)}

\* node_mapping of the unsampled expansion: the layers deepest first, ascending
BfsNodeMapping(csr, seeds, h) ==
  Flatten([j \in 1..(h + 1) |-> SetToSortedSeq(BfsLayer(csr, seeds, h + 1 - j))])

\* edge_mapping of the unsampled expansion: the whole slice of every expanded vertex
BfsEdgeMapping(csr, seeds, h) ==
  Flatten([j \in 1..h |->
             LET layer == SetToSortedSeq(BfsLayer(csr, seeds, h - j))
             IN Flatten([k \in DOMAIN layer |-> EdgeIdList(csr, layer[k])])])

FullFanout == nfs.pc # "off" /\ nfs.num_neighbor >= MaxDegree(nfs.csr)

(* C13: with a fanout of at least the maximum degree, uniform sampling
   through the public entry point does not fail and has one outcome, the
   unsampled breadth-first expansion: every finished layer d is the set of
   vertices d edges away from a seed, node_mapping and edge_mapping are
   those of the expansion, every vertex within num_hops hops of a seed is
   in node_mapping and every edge on a shortest path from a seed is in
   edge_mapping. *)
C13_FullFanoutIsBfs ==
  FullFanout =>
    /\ nfs.pc # "failed"
    /\ nfs.pc # "start" =>
         \A d \in 0..(nfs.layer_id - 1) :
           {v \in 0..(NumVertices(nfs.csr) - 1) : Queued(v, d)}
             = BfsLayer(nfs.csr, nfs.seeds, d)
    /\ NFDone =>
         /\ NF.node_mapping = BfsNodeMapping(nfs.csr, nfs.seeds, nfs.hops)
         /\ NF.edge_mapping = BfsEdgeMapping(nfs.csr, nfs.seeds, nfs.hops)
         /\ \A d \in 0..nfs.hops :
              BfsLayer(nfs.csr, nfs.seeds, d) \subseteq Range(NF.node_mapping)
         /\ \A d \in 0..(nfs.hops - 1) :
              ShortestPathEdges(nfs.csr, nfs.seeds, d) \subseteq Range(NF.edge_mapping)

\* a full-fanout NodeFlow with a vertex two edges away from the seeds
C13_Witness ==
  /\ NFDone /\ FullFanout /\ nfs.hops = 2
  /\ FirstReached(nfs.csr, nfs.seeds, 2) # {}
  /\ ShortestPathEdges(nfs.csr, nfs.seeds, 1) # {}
  /\ Len(NF.edge_mapping) >= 2

\* the call of the example: path 0->1->2->3, seeds [0], num_hops 2, a
\* fanout that is at least the degree of every vertex
PathExample ==
  /\ nfs.pc # "off"
  /\ nfs.csr = CSROf(PathGraph) /\ nfs.seeds = <<0>> /\ nfs.hops = 2
  /\ nfs.num_neighbor >= MaxDegree(nfs.csr)

\* node_mapping grouped by the layers of layer_offsets
NodeMappingByLayer ==
  [j \in 1..NumLayers |->
     Slice(NF.node_mapping, At(NF.layer_offsets, j - 1), At(NF.layer_offsets, j))]

(* C14 (as the code has it): the public entry point called with
   num_hops = h returns h + 1 layers, layer_offsets of length h + 2 and
   flow_offsets of length h + 1; on the path example node_mapping grouped
   by layer is [[2], [1], [0]]. *)
C14_LayersAreHopsPlusOne ==
  NFDone =>
    /\ NumLayers = nfs.hops + 1
    /\ Len(NF.layer_offsets) = nfs.hops + 2
    /\ Len(NF.flow_offsets) = nfs.hops + 1
    /\ PathExample => NodeMappingByLayer = << <<2>>, <<1>>, <<0>> >>

\* the path example has returned
C14_Witness == NFDone /\ PathExample /\ Len(NF.node_mapping) = 3

(* C14 (as stated): the public entry point called with num_hops = h
   returns h layers, layer_offsets of length h + 1 and flow_offsets of
   length h; on the path example node_mapping grouped by layer is
   [[1], [0]]. *)
C14_LayersAreHops ==
  NFDone =>
    /\ NumLayers = nfs.hops
    /\ Len(NF.layer_offsets) = nfs.hops + 1
    /\ Len(NF.flow_offsets) = nfs.hops
    /\ PathExample => NodeMappingByLayer = << <<1>>, <<0>> >>

----------------------------------------------------------------------------
(* ArrayHeap (sampler.cc): a sum tree over the weights of a slice.
   heap_[0] is unused, heap_[1] is the root, the leaves are
   heap_[limit_ .. 2 * limit_ - 1].  Weights are exact integers. *)

RandMod == 100     \* rand_r(seed) % 100
RandDiv == 101     \* ... / 101.0

RECURSIVE CeilLog2(_, _)
\* ceil(log2(n)) for n >= 1
CeilLog2(n, b) == IF 2^b >= n THEN b ELSE CeilLog2(n, b + 1)

RECURSIVE HeapSumUp(_, _)
\* "iterate up the tree": every inner node is the sum of its two children
HeapSumUp(heap_, j) ==
  IF j < 1 THEN heap_
  ELSE HeapSumUp([heap_ EXCEPT ![j + 1] = At(heap_, 2 * j) + At(heap_, 2 * j + 1)],
                 j - 1)

\* the constructor
ArrayHeap(prob) ==
  LET vec_size_ == Len(prob)
      bit_len_ == CeilLog2(vec_size_, 0)
      limit_ == 2^bit_len_
      leaves == [i \in 1..(2 * limit_) |->
                   IF i - 1 >= limit_ /\ i - 1 < vec_size_ + limit_
                     THEN At(prob, i - 1 - limit_) ELSE 0]
  IN [vec_size_ |-> vec_size_, bit_len_ |-> bit_len_, limit_ |-> limit_,
      heap_ |-> HeapSumUp(leaves, limit_ - 1)]

\* a Delete that takes the weight off the leaf only
HeapSubtractLeafOnly(heap_, i, w, j) == [heap_ EXCEPT ![i + 1] = @ - w]

RECURSIVE HeapSubtract(_, _, _, _)
\* for (j = bit_len_; j >= 0; --j) { heap_[i] -= w; i = i >> 1; }
HeapSubtract(heap_, i, w, j) ==
  IF j < 0 THEN heap_
  ELSE HeapSubtract([heap_ EXCEPT ![i + 1] = @ - w], i \div 2, w, j - 1)

\* a sum tree that forgets no sampled leaf
ArrayHeapKeep(h, index) == h

\* Delete(index)
ArrayHeapDelete(h, index) ==
  [h EXCEPT !.heap_ = HeapSubtract(@, index + h.limit_,
                                   At(h.heap_, index + h.limit_), h.bit_len_)]

RECURSIVE HeapDescend(_, _, _)
\* while (i < limit_): xi is kept multiplied by RandDiv
HeapDescend(h, i, xi) ==
  IF ~(i < h.limit_) THEN i
  ELSE IF xi >= RandDiv * At(h.heap_, 2 * i)
    THEN HeapDescend(h, 2 * i + 1, xi - RandDiv * At(h.heap_, 2 * i))
    ELSE HeapDescend(h, 2 * i, xi)

\* Sample(seed) for the value r of rand_r(seed) % 100
ArrayHeapSample(h, r) == HeapDescend(h, 1, At(h.heap_, 1) * r) - h.limit_

RECURSIVE SampleWithoutReplacement(_, _, _)
\* SampleWithoutReplacement(n, samples, seed): every sequence it can fill in
SampleWithoutReplacement(h, n, samples) ==
  IF n = 0 THEN {samples}
  ELSE UNION {SampleWithoutReplacement(ArrayHeapDelete(h, x), n - 1, Append(samples, x)) :
                x \in {ArrayHeapSample(h, r) : r \in 0..(RandMod - 1)}}

\* a verbatim copy of shorter slices only
CopiesVerbatimStrict(ver_len, max_num_neighbor) == ver_len < max_num_neighbor

\* if (ver_len <= max_num_neighbor): the slice is copied to the output
CopiesVerbatim(ver_len, max_num_neighbor) == ver_len <= max_num_neighbor

(* GetNonUniformSample: the possible outputs [ok, oob, ver, edge].  oob:
   a sampled index lies outside the slice, so vid_list[idx] and
   edge_id_list[idx] are reads outside it. *)
GetNonUniformSample(probability, edge_id_list, vid_list, ver_len, max_num_neighbor) ==
  IF CopiesVerbatim(ver_len, max_num_neighbor)
    THEN {[ok |-> TRUE, oob |-> FALSE, ver |-> vid_list, edge |-> edge_id_list]}
  ELSE LET sp_prob == [i \in 1..ver_len |-> At(probability, vid_list[i])]
       IN {LET inside == \A i \in DOMAIN sp_index : sp_index[i] < ver_len
           IN [ok |-> TRUE, oob |-> ~inside,
               ver |-> IF inside
                         THEN SortInts([i \in DOMAIN sp_index |->
                                          At(vid_list, sp_index[i])])
                         ELSE <<>>,
               edge |-> IF inside
                          THEN SortInts([i \in DOMAIN sp_index |->
                                           At(edge_id_list, sp_index[i])])
                          ELSE <<>>] :
             sp_index \in SampleWithoutReplacement(ArrayHeap(sp_prob),
                                                   max_num_neighbor, <<>>)}

\* RandomSample calls rand_r at least once exactly when num > 0
RandomSampleUsesSeed(set_size, num) == num > 0

\* whether GetUniformSample calls rand_r
UniformUsesSeed(ver_len, max_num_neighbor) ==
  IF ver_len <= max_num_neighbor THEN FALSE
  ELSE IF ver_len > max_num_neighbor * 2
    THEN RandomSampleUsesSeed(ver_len, max_num_neighbor)
    ELSE RandomSampleUsesSeed(ver_len, ver_len - max_num_neighbor)

\* whether GetNonUniformSample calls rand_r: once per Sample
NonUniformUsesSeed(ver_len, max_num_neighbor) ==
  IF CopiesVerbatim(ver_len, max_num_neighbor) THEN FALSE ELSE max_num_neighbor > 0

----------------------------------------------------------------------------
(* One call of a selector on one adjacency slice, as SampleSubgraph makes
   it: sel.pc is "call" before and "ret" after it. *)

MaxSlice == 3          \* longest slice given to GetNonUniformSample
MaxUniformSlice == 5   \* longest slice given to GetUniformSample
MaxProb == 2           \* largest weight of a vertex

SliceVertices == {0, 1, 2}

\* edge ids that descend with the position in the slice
DescendingIds(n) == [p \in 1..n |-> 2 * (n - p)]

\* the edge ids of a slice of length n: ascending or descending with the position
EdgeIdLists(n) == {[p \in 1..n |-> p + 1], DescendingIds(n)}

SelectorInit ==
  /\ kind = "none" /\ replace = FALSE /\ prob0 = <<>> /\ sampler = NoSampler
  /\ drawn = <<>> /\ status = "ok" /\ lastOp = "none" /\ dirtyReset = FALSE
  /\ nfs = NoNodeFlow /\ rw = NoWalk /\ arrs = NoArrays /\ call = NoDraw
  /\ \E mode \in {"uniform", "weighted"}, max_num_neighbor \in 0..MaxFanout :
       \E vid_list \in {<<>>} \cup
                        SeqsUpTo(SliceVertices,
                                 IF mode = "uniform" THEN MaxUniformSlice ELSE MaxSlice) :
         \E edge_id_list \in IF mode = "uniform" THEN EdgeIdLists(Len(vid_list))
                             ELSE {DescendingIds(Len(vid_list))},
            probability \in IF mode = "uniform" THEN {<<>>}
                            ELSE [1..Cardinality(SliceVertices) -> 0..MaxProb] :
           sel = [pc |-> "call", mode |-> mode,
                  probability |-> probability,
                  edge_id_list |-> edge_id_list,
                  vid_list |-> vid_list,
                  ver_len |-> Len(vid_list),
                  max_num_neighbor |-> max_num_neighbor,
                  out_ver |-> <<>>, out_edge |-> <<>>,
                  ok |-> TRUE, oob |-> FALSE, seed_used |-> FALSE]

\* probability == nullptr: GetUniformSample
SelectUniform ==
  /\ sel.pc = "call" /\ sel.mode = "uniform"
  /\ \E r \in GetUniformSample(sel.edge_id_list, sel.vid_list, sel.ver_len,
                               sel.max_num_neighbor) :
       sel' = [sel EXCEPT !.pc = "ret", !.ok = r.ok,
                          !.out_ver = r.ver, !.out_edge = r.edge,
                          !.seed_used = UniformUsesSeed(sel.ver_len,
                                                        sel.max_num_neighbor)]
  /\ UNCHANGED <<svars, nfs, rw, arrs, call>>

\* GetNonUniformSample
SelectNonUniform ==
  /\ sel.pc = "call" /\ sel.mode = "weighted"
  /\ \E r \in GetNonUniformSample(sel.probability, sel.edge_id_list, sel.vid_list,
                                  sel.ver_len, sel.max_num_neighbor) :
       sel' = [sel EXCEPT !.pc = "ret", !.ok = r.ok, !.oob = r.oob,
                          !.out_ver = r.ver, !.out_edge = r.edge,
                          !.seed_used = NonUniformUsesSeed(sel.ver_len,
                                                           sel.max_num_neighbor)]
  /\ UNCHANGED <<svars, nfs, rw, arrs, call>>

SelectorNext == SelectUniform \/ SelectNonUniform

SelectorSpec == SelectorInit /\ [][SelectorNext]_vars

----------------------------------------------------------------------------
(* Properties of the selectors (checked under SelectorSpec) *)

Returned == sel.pc = "ret"

\* the slice positions, 0-based
Positions == 0..(sel.ver_len - 1)

\* the values a list holds at the positions S, in ascending position order
TakenAt(list, S) ==
  LET idx == SetToSortedSeq(S) IN [i \in DOMAIN idx |-> At(list, idx[i])]

(* C15: a slice of length <= fanout k is output whole by both selectors,
   neighbor ids and edge ids in their original order and pairing, and
   rand_r is not called. *)
C15_ShortSliceVerbatim ==
  (Returned /\ sel.ver_len <= sel.max_num_neighbor) =>
    /\ sel.ok /\ ~sel.oob
    /\ sel.out_ver = sel.vid_list
    /\ sel.out_edge = sel.edge_id_list
    /\ ~sel.seed_used

\* the weighted selector returned an unsorted slice as long as the fanout
C15_Witness ==
  /\ Returned /\ sel.mode = "weighted"
  /\ sel.ver_len = sel.max_num_neighbor /\ sel.ver_len >= 2
  /\ SortInts(sel.out_ver) # sel.out_ver
  /\ sel.probability = <<0, 0, 0>>

(* C16: on a slice of length L > k GetUniformSample passes its CHECKs and
   outputs exactly k pairs, the (neighbor id, edge id) pairs found at k
   distinct positions in ascending position order; in the exclusion
   branch (k < L <= 2k) NegateArray yields the complement of the excluded
   positions. *)
C16_UniformPicksPositions ==
  (Returned /\ sel.mode = "uniform" /\ sel.ver_len > sel.max_num_neighbor) =>
    /\ sel.ok
    /\ Len(sel.out_ver) = sel.max_num_neighbor
    /\ Len(sel.out_edge) = sel.max_num_neighbor
    /\ \E S \in SUBSET Positions :
         /\ Cardinality(S) = sel.max_num_neighbor
         /\ sel.out_ver = TakenAt(sel.vid_list, S)
         /\ sel.out_edge = TakenAt(sel.edge_id_list, S)
    /\ sel.ver_len <= 2 * sel.max_num_neighbor =>
         \A S \in RandomSample(sel.ver_len, sel.ver_len - sel.max_num_neighbor) :
           /\ NegateArray(SetToSortedSeq(S), sel.ver_len).ok
           /\ NegateArray(SetToSortedSeq(S), sel.ver_len).out
                = SetToSortedSeq(Positions \ S)

\* a direct draw of two positions that leaves out the first position
C16_Witness ==
  /\ Returned /\ sel.mode = "uniform"
  /\ sel.ver_len > 2 * sel.max_num_neighbor /\ sel.max_num_neighbor = 2
  /\ sel.out_edge[1] # sel.edge_id_list[1]
  /\ ~Distinct(sel.vid_list)

\* the number of slice positions whose neighbor has a positive weight
PositiveNeighbors ==
  Cardinality({q \in 1..sel.ver_len : At(sel.probability, sel.vid_list[q]) > 0})

(* C17: on a slice of length L > k with at least k positive-weight
   neighbors GetNonUniformSample outputs two sequences of length k: the
   ascending sort of the neighbor ids at k distinct positions, and the
   ascending sort of the edge ids at the same positions. *)
C17_NonUniformSortedPicks ==
  (Returned /\ sel.mode = "weighted" /\ sel.ver_len > sel.max_num_neighbor
     /\ PositiveNeighbors >= sel.max_num_neighbor) =>
    /\ ~sel.oob
    /\ Len(sel.out_ver) = sel.max_num_neighbor
    /\ Len(sel.out_edge) = sel.max_num_neighbor
    /\ \E S \in SUBSET Positions :
         /\ Cardinality(S) = sel.max_num_neighbor
         /\ sel.out_ver = SortInts(TakenAt(sel.vid_list, S))
         /\ sel.out_edge = SortInts(TakenAt(sel.edge_id_list, S))

\* two picks whose sorted outputs no longer pair a neighbor with its edge
C17_Witness ==
  /\ Returned /\ sel.mode = "weighted" /\ sel.ver_len > sel.max_num_neighbor
  /\ sel.max_num_neighbor = 2 /\ PositiveNeighbors = 2 /\ ~sel.oob
  /\ \A q \in 1..sel.ver_len :
       ~(sel.vid_list[q] = sel.out_ver[1] /\ sel.edge_id_list[q] = sel.out_edge[1])

-----------------------------------------------------------------------------
(* SamplerOp::RandomWalk (sampler.cc:486-525).  The graph is the sequence of
   the successor lists of the vertices 0, 1, ...; the worker threads of the
   parallel region take the iterations of the outer loop, one inner
   iteration (one written cell) per step. *)

MaxTraces == 2
MaxWalkHops == 3
MaxThreads == 2

WalkCycle == << <<1>>, <<2>>, <<0>> >>
WalkFork == << <<1, 2>>, <<0>>, <<0, 1>> >>
WalkPath == << <<1>>, <<>> >>
WalkSinkFork == << <<1, 2>>, <<>>, <<0>> >>
WalkGraphs == {WalkCycle, WalkFork, WalkPath, WalkSinkFork}

WalkSeeds == {<<>>, <<0>>, <<1, 0>>, <<0, 0>>}

Clocks == {4, 5}

Unwritten == -1

(* what a read through the empty successor vector yields when the process
   survives it: a value that is no vertex of the graph *)
WalkGarbage(g) == {Len(g)}

HasVertex(g, vid) == vid \in 0..(Len(g) - 1)

SuccVec(g, vid) == g[vid + 1]

RECURSIVE Xor(_, _)
Xor(a, b) ==
  IF a = 0 THEN b
  ELSE IF b = 0 THEN a
  ELSE (((a % 2) + (b % 2)) % 2) + 2 * Xor(a \div 2, b \div 2)

(* rand_r: the generator state after one call; the call returns it *)
RandR(random_seed) == (random_seed * 5 + 3) % 16

Offset(i, j, k, num_traces, kmax) == (i * num_traces + j) * kmax + k

SeedSlotShared(t) == 0

SeedSlot(t) == t

Kmax(num_hops) == num_hops + 1

(* the iterations of the outer loop that thread t runs, in ascending order *)
OwnedFrom(owner, t, from) ==
  {i \in from..(Len(owner) - 1) : owner[i + 1] = t}

(* the position of a thread that enters iteration i of the outer loop, or
   that has left the loop (fin) when no iteration is left for it *)
EnterIteration(w, t, from) ==
  LET own == OwnedFrom(w.owner, t, from)
  IN  IF own = {} \/ w.num_traces = 0
      THEN [started |-> TRUE, fin |-> TRUE, i |-> 0, j |-> 0, k |-> 0, cur |-> 0]
      ELSE LET i == CHOOSE o \in own : \A q \in own : o <= q
           IN  [started |-> TRUE, fin |-> FALSE, i |-> i, j |-> 0, k |-> 0,
                cur |-> w.seeds[i + 1]]

(* the position after the inner iteration k of trace j of iteration i, with
   next_cur the vertex drawn in it *)
Advance(w, t, p, next_cur) ==
  IF p.k + 1 < Kmax(w.num_hops)
  THEN [p EXCEPT !.k = p.k + 1, !.cur = next_cur]
  ELSE IF p.j + 1 < w.num_traces
  THEN [p EXCEPT !.j = p.j + 1, !.k = 0, !.cur = w.seeds[p.i + 1]]
  ELSE EnterIteration(w, t, p.i + 1)

Threads(w) == 0..(w.nthreads - 1)

RandomWalkInit ==
  /\ kind = "alias" /\ replace = TRUE /\ prob0 = <<1>>
  /\ sampler = NoSampler /\ drawn = <<>> /\ status = "ok"
  /\ lastOp = "none" /\ dirtyReset = FALSE
  /\ nfs = NoNodeFlow /\ sel = NoSelector /\ arrs = NoArrays /\ call = NoDraw
  /\ \E g \in WalkGraphs, seeds \in WalkSeeds,
        num_traces \in 0..MaxTraces, num_hops \in 0..MaxWalkHops,
        nthreads \in 1..MaxThreads :
       /\ \A q \in 1..Len(seeds) : HasVertex(g, seeds[q])
       /\ \E owner \in [1..Len(seeds) -> 0..(nthreads - 1)] :
            rw = [pc |-> "run",
                  graph |-> g,
                  seeds |-> seeds,
                  num_traces |-> num_traces,
                  num_hops |-> num_hops,
                  nthreads |-> nthreads,
                  owner |-> owner,
                  th |-> [t \in 0..(nthreads - 1) |->
                            [started |-> FALSE, fin |-> FALSE,
                             i |-> 0, j |-> 0, k |-> 0, cur |-> 0]],
                  random_seed |-> [t \in 0..(nthreads - 1) |-> 0],
                  trace_data |-> [c \in 1..(Len(seeds) * num_traces * Kmax(num_hops))
                                    |-> Unwritten],
                  writers |-> [c \in 1..(Len(seeds) * num_traces * Kmax(num_hops))
                                 |-> <<>>],
                  zero_size |-> {}]

(* line 502: a thread enters the parallel region and seeds its generator *)
ThreadStart ==
  /\ rw.pc = "run"
  /\ \E t \in Threads(rw), now \in Clocks :
       /\ ~rw.th[t].started
       /\ rw' = [rw EXCEPT
                   !.random_seed[SeedSlot(t)] = Xor(now, t),
                   !.th[t] = EnterIteration(rw, t, 0)]
  /\ UNCHANGED <<svars, nfs, sel, arrs, call>>

(* lines 513-518 for a vertex with successors *)
WalkStep ==
  /\ rw.pc = "run"
  /\ \E t \in Threads(rw) :
       LET p == rw.th[t]
           offset == Offset(p.i, p.j, p.k, rw.num_traces, Kmax(rw.num_hops))
           r == RandR(rw.random_seed[SeedSlot(t)])
       IN  /\ p.started /\ ~p.fin
           /\ HasVertex(rw.graph, p.cur)
           /\ Len(SuccVec(rw.graph, p.cur)) > 0
           /\ LET succ == SuccVec(rw.graph, p.cur)
              IN  rw' = [rw EXCEPT
                           !.trace_data[offset + 1] = p.cur,
                           !.writers[offset + 1] = Append(@, t),
                           !.random_seed[SeedSlot(t)] = r,
                           !.th[t] = Advance(rw, t, p, succ[(r % Len(succ)) + 1])]
  /\ UNCHANGED <<svars, nfs, sel, arrs, call>>

(* lines 513-518 for a vertex without successors, or for a value that is
   no vertex: the cell is written, then `rand_r(&random_seed) % size` is
   evaluated with size = 0 and the empty vector is indexed.  The behaviour
   is undefined: the process is killed (a trap of the division, an invalid
   read), or the walk goes on from an arbitrary value. *)
WalkStepEmpty ==
  /\ rw.pc = "run"
  /\ \E t \in Threads(rw) :
       LET p == rw.th[t]
           offset == Offset(p.i, p.j, p.k, rw.num_traces, Kmax(rw.num_hops))
           r == RandR(rw.random_seed[SeedSlot(t)])
           written == [rw EXCEPT
                         !.trace_data[offset + 1] = p.cur,
                         !.writers[offset + 1] = Append(@, t),
                         !.random_seed[SeedSlot(t)] = r,
                         !.zero_size = @ \cup {IF p.k + 1 < Kmax(rw.num_hops)
                                                 THEN "mid" ELSE "last"}]
       IN  /\ p.started /\ ~p.fin
           /\ ~(HasVertex(rw.graph, p.cur) /\ Len(SuccVec(rw.graph, p.cur)) > 0)
           /\ \/ rw' = [written EXCEPT !.pc = "killed"]
              \/ \E garbage \in WalkGarbage(rw.graph) :
                   rw' = [written EXCEPT !.th[t] = Advance(rw, t, p, garbage)]
  /\ UNCHANGED <<svars, nfs, sel, arrs, call>>

(* line 524: every thread has left the parallel region *)
WalkReturn ==
  /\ rw.pc = "run"
  /\ \A t \in Threads(rw) : rw.th[t].started /\ rw.th[t].fin
  /\ rw' = [rw EXCEPT !.pc = "done"]
  /\ UNCHANGED <<svars, nfs, sel, arrs, call>>

RandomWalkNext == ThreadStart \/ WalkStep \/ WalkStepEmpty \/ WalkReturn

RandomWalkSpec == RandomWalkInit /\ [][RandomWalkNext]_vars

-----------------------------------------------------------------------------
(* Properties of RandomWalk (checked under RandomWalkSpec) *)

WalkKilled == rw.pc = "killed"

WalkReturned == rw.pc = "done"

(* the cell (i, j, k) of the dense array of shape
   (|seeds|, num_traces, num_hops + 1), row-major *)
TraceAt(i, j, k) ==
  rw.trace_data[((i * rw.num_traces) + j) * (rw.num_hops + 1) + k + 1]

WritersAt(i, j, k) ==
  rw.writers[((i * rw.num_traces) + j) * (rw.num_hops + 1) + k + 1]

TraceIndices ==
  (0..(Len(rw.seeds) - 1)) \X (0..(rw.num_traces - 1)) \X (0..rw.num_hops)

IsSuccessor(g, u, v) ==
  /\ HasVertex(g, u)
  /\ \E q \in 1..Len(g[u + 1]) : g[u + 1][q] = v

NoSinks(g) == \A q \in 1..Len(g) : Len(g[q]) > 0

SingleSuccessor(g) == \A q \in 1..Len(g) : Len(g[q]) = 1

TracesAreWalks ==
  /\ Len(rw.trace_data) = Len(rw.seeds) * rw.num_traces * (rw.num_hops + 1)
  /\ \A c \in TraceIndices :
       /\ TraceAt(c[1], c[2], c[3]) # Unwritten
       /\ c[3] = 0 => TraceAt(c[1], c[2], 0) = rw.seeds[c[1] + 1]
       /\ c[3] > 0 => IsSuccessor(rw.graph, TraceAt(c[1], c[2], c[3] - 1),
                                  TraceAt(c[1], c[2], c[3]))

(* the walks of a graph without sinks: the call returns, and what it returns
   are walks from the seeds *)
WalkOnGraphWithoutSinks ==
  NoSinks(rw.graph) =>
    /\ ~WalkKilled
    /\ rw.zero_size = {}
    /\ WalkReturned => TracesAreWalks

(* C18: RandomWalk returns an array of shape (|seeds|, num_traces,
   num_hops + 1) whose every cell is written, entry 0 of each trace being
   its seed and every entry k+1 a successor of entry k.  Stated here for the
   calls in which no walk meets a vertex without successors before its last
   hop: such a call is not killed, and what it returns are walks. *)
C18_WalkReturnsTraces ==
  "mid" \notin rw.zero_size =>
    /\ ~WalkKilled
    /\ WalkReturned => TracesAreWalks

(* the vertex reached from v by k steps along the only successor *)
RECURSIVE FollowOnly(_, _, _)
FollowOnly(g, v, k) ==
  IF k = 0 THEN v ELSE FollowOnly(g, g[v + 1][1], k - 1)

WrittenOnceByOwner ==
  \A c \in TraceIndices :
    /\ Len(WritersAt(c[1], c[2], c[3])) <= 1
    /\ \A q \in 1..Len(WritersAt(c[1], c[2], c[3])) :
         WritersAt(c[1], c[2], c[3])[q] = rw.owner[c[1] + 1]
    /\ WalkReturned => Len(WritersAt(c[1], c[2], c[3])) = 1

SingleSuccessorResult ==
  (WalkReturned /\ SingleSuccessor(rw.graph)) =>
    \A c \in TraceIndices :
      TraceAt(c[1], c[2], c[3]) = FollowOnly(rw.graph, rw.seeds[c[1] + 1], c[3])

(* a step changes the generator state of no thread but the one that made
   it: the thread that entered the region, or that wrote a cell, in it *)
OwnGeneratorOnly ==
  \A t \in Threads(rw) :
    rw'.random_seed[t] # rw.random_seed[t] =>
      \/ ~rw.th[t].started /\ rw'.th[t].started
      \/ \E c \in 1..Len(rw.writers) : rw'.writers[c] = Append(rw.writers[c], t)

(* C19: on a graph whose every vertex has exactly one successor the result
   of RandomWalk is fixed by the graph and the seeds alone, whatever the
   number of threads, their interleaving and their generator seeds; every
   cell is written at most once, by the thread that runs its outer-loop
   iteration, and exactly once when the call returns; no step of a thread
   touches the generator state of another. *)
C19_WalkDeterministicAndDisjoint ==
  /\ [](SingleSuccessorResult /\ WrittenOnceByOwner)
  /\ [][OwnGeneratorOnly]_vars

C19_Witness ==
  /\ WalkReturned
  /\ rw.graph = WalkCycle /\ rw.seeds = <<1, 0>>
  /\ rw.num_traces = 1 /\ rw.num_hops = 3
  /\ rw.nthreads = 2 /\ rw.owner[1] # rw.owner[2]
  /\ rw.random_seed[0] # rw.random_seed[1]
  /\ rw.trace_data = <<1, 2, 0, 1, 0, 1, 2, 0>>

(* C20: a walk that reaches, before its last hop, a vertex without
   successors ends in a fatal error; the size 0 is never used as a divisor
   and the empty list is never indexed. *)
C20_EmptySuccessorIsFatal == "mid" \notin rw.zero_size

(* the vertices a trace recorded before its last position all have
   successors: no step from a position below num_hops met an empty list *)
SteppedFromHaveSuccessors == "mid" \notin rw.zero_size

(* C30: RandomWalk looks up successors only for the vertices it steps from.
   A call in which every vertex recorded at the positions 0..num_hops-1 has
   a successor is not killed and returns its traces, also when the vertex
   recorded at the last position has none; with num_hops = 0 the call is
   not killed on any graph and returns the seeds. *)
C30_LastVertexNeedsNoSuccessor ==
  /\ SteppedFromHaveSuccessors =>
       /\ "last" \notin rw.zero_size
       /\ ~WalkKilled
  /\ rw.num_hops = 0 =>
       /\ ~WalkKilled
       /\ WalkReturned =>
            \A c \in TraceIndices : TraceAt(c[1], c[2], 0) = rw.seeds[c[1] + 1]

-----------------------------------------------------------------------------
(* Array utilities (array.cc).  The storage is a sequence of buffers; an
   IdArray is a handle [data, shape0, bits] on one of them, and copies of a
   handle share the buffer. *)

MaxArrLen == 3
MaxPokes == 2

ArrBits == {32, 64}

PokeValues == {-1, 5}

(* IdArray::Empty: a fresh buffer whose cells hold nothing yet *)
NewIdArray(heap, length, nbits) ==
  [heap |-> Append(heap, [c \in 1..length |-> Unwritten]),
   ret |-> [data |-> Len(heap) + 1, shape0 |-> length, bits |-> nbits]]

Contents(heap, arr) == heap[arr.data]

(* NDArray::CopyFrom: the cells of the target's buffer become those of the
   source's buffer *)
CopyFrom(heap, to, from) ==
  [heap EXCEPT ![to.data] = [c \in 1..to.shape0 |-> heap[from.data][c]]]

CloneShared(heap, arr) == [heap |-> heap, ret |-> arr]

Clone(heap, arr) ==
  LET new == NewIdArray(heap, arr.shape0, arr.bits)
  IN  [heap |-> CopyFrom(new.heap, new.ret, arr), ret |-> new.ret]

(* impl::Range: low, low + 1, ..., high - 1 *)
ArrRange(heap, low, high, nbits) ==
  LET new == NewIdArray(heap, high - low, nbits)
  IN  [heap |-> [new.heap EXCEPT ![new.ret.data] =
                   [c \in 1..(high - low) |-> low + c - 1]],
       ret |-> new.ret]

(* impl::Full: length copies of val *)
ArrFull(heap, val, length, nbits) ==
  LET new == NewIdArray(heap, length, nbits)
  IN  [heap |-> [new.heap EXCEPT ![new.ret.data] = [c \in 1..length |-> val]],
       ret |-> new.ret]

MadeArrays ==
  {NewIdArray(<<>>, 0, 64)}
  \cup {ArrRange(<<>>, low, low + n, nbits) :
          low \in {0, 1}, n \in 0..MaxArrLen, nbits \in ArrBits}
  \cup {ArrFull(<<>>, val, n, nbits) :
          val \in {-100, 0}, n \in 0..MaxArrLen, nbits \in ArrBits}

ArrayInit ==
  /\ kind = "alias" /\ replace = TRUE /\ prob0 = <<1>>
  /\ sampler = NoSampler /\ drawn = <<>> /\ status = "ok"
  /\ lastOp = "none" /\ dirtyReset = FALSE
  /\ nfs = NoNodeFlow /\ sel = NoSelector /\ rw = NoWalk /\ call = NoDraw
  /\ \E made \in MadeArrays :
       arrs = [pc |-> "made", heap |-> made.heap, a |-> made.ret,
               b |-> made.ret, a_written |-> Contents(made.heap, made.ret),
               b_written |-> <<>>, pokes |-> 0]

(* b = aten::Clone(a) *)
ArrClone ==
  /\ arrs.pc = "made"
  /\ LET c == Clone(arrs.heap, arrs.a)
     IN  arrs' = [arrs EXCEPT !.pc = "cloned", !.heap = c.heap, !.b = c.ret,
                              !.b_written = arrs.a_written]
  /\ UNCHANGED <<svars, nfs, sel, rw, call>>

(* Ptr(b)[i] = v *)
PokeClone ==
  /\ arrs.pc = "cloned" /\ arrs.pokes < MaxPokes
  /\ \E i \in 1..arrs.b.shape0, v \in PokeValues :
       arrs' = [arrs EXCEPT !.heap[arrs.b.data][i] = v,
                            !.b_written[i] = v,
                            !.pokes = @ + 1]
  /\ UNCHANGED <<svars, nfs, sel, rw, call>>

(* Ptr(a)[i] = v *)
PokeOriginal ==
  /\ arrs.pc = "cloned" /\ arrs.pokes < MaxPokes
  /\ \E i \in 1..arrs.a.shape0, v \in PokeValues :
       arrs' = [arrs EXCEPT !.heap[arrs.a.data][i] = v,
                            !.a_written[i] = v,
                            !.pokes = @ + 1]
  /\ UNCHANGED <<svars, nfs, sel, rw, call>>

ArrayNext == ArrClone \/ PokeClone \/ PokeOriginal

ArraySpec == ArrayInit /\ [][ArrayNext]_vars

(* C21: the clone has the length, the bit width and the element values of
   the cloned array and its own storage: after any writes to the elements of
   the clone the original holds what was written to the original, and the
   clone what was cloned and then written to the clone; the clone of an
   empty array is empty. *)
C21_CloneIsDeepCopy ==
  arrs.pc = "cloned" =>
    /\ arrs.b.shape0 = arrs.a.shape0
    /\ arrs.b.bits = arrs.a.bits
    /\ Len(Contents(arrs.heap, arrs.b)) = arrs.a.shape0
    /\ Contents(arrs.heap, arrs.a) = arrs.a_written
    /\ Contents(arrs.heap, arrs.b) = arrs.b_written
    /\ arrs.a.shape0 = 0 => Contents(arrs.heap, arrs.b) = <<>>

C21_Witness ==
  /\ arrs.pc = "cloned" /\ arrs.a.bits = 32
  /\ arrs.pokes = 1
  /\ Contents(arrs.heap, arrs.a) = <<0, 1, 2>>
  /\ Contents(arrs.heap, arrs.b) = <<-1, 1, 2>>

-----------------------------------------------------------------------------
(* The CHECKs of SampleSubgraph and ConstructNodeFlow (checked under
   NodeFlowSpec) *)

\* sub_vers and neigh_pos as ConstructNodeFlow leaves them after its sorts
SortedSubVers == SortLayers(nfs.sub_vers, nfs.layer_offsets, nfs.num_hops - 1)

SortedNeighPos == SortNeighPos(nfs.neigh_pos, nfs.layer_offsets, nfs.num_hops - 2)

\* the positions of sub_vers that hold the vertices of layer d
LayerPositions(d) ==
  {i \in 0..(Len(nfs.sub_vers) - 1) :
     At(nfs.layer_offsets, d) <= i /\ i < At(nfs.layer_offsets, d + 1)}

\* the original ids in the local-id table of layer d
LayerTable(d) == {At(SortedSubVers, i).first : i \in LayerPositions(d)}

(* C22: uniform SampleSubgraph followed by ConstructNodeFlow ends without a
   failed CHECK, for every graph, seed array, fanout, hop count and outcome
   of the draws; in what it returns there is one NeighborRecord per expanded
   vertex, the i-th record after the sorts is that of the i-th vertex, the
   slice of every record lies inside the neighbor buffer, every neighbor
   sampled for a vertex of layer d is in the table of layer d + 1, and the
   row, edge, layer and flow counts are the expected ones. *)
C22_NoCheckFails ==
  /\ nfs.pc # "failed"
  /\ NFDone =>
       /\ Len(nfs.neigh_pos) = At(nfs.layer_offsets, nfs.num_hops - 1)
       /\ Len(nfs.neighbor_list) = nfs.num_edges
       /\ Len(nfs.edge_list) = nfs.num_edges
       /\ \A d \in 0..(nfs.num_hops - 2) : \A i \in LayerPositions(d) :
            LET rec == At(SortedNeighPos, i)
            IN  /\ rec.id = At(SortedSubVers, i).first
                /\ At(SortedSubVers, i).second = d
                /\ rec.pos + rec.num_edges <= Len(nfs.neighbor_list)
                /\ \A q \in (rec.pos + 1)..(rec.pos + rec.num_edges) :
                     nfs.neighbor_list[q] \in LayerTable(d + 1)
       /\ Len(NF.indptr) = Len(nfs.sub_vers) + 1
       /\ Len(NF.node_mapping) = Len(nfs.sub_vers)
       /\ At(NF.indptr, Len(nfs.sub_vers)) = nfs.num_edges
       /\ Len(NF.indices) = nfs.num_edges
       /\ Len(NF.edge_mapping) = nfs.num_edges
       /\ Len(NF.layer_offsets) = nfs.num_hops + 1
       /\ At(NF.layer_offsets, nfs.num_hops) = Len(nfs.sub_vers)
       /\ Len(NF.flow_offsets) = nfs.num_hops
       /\ At(NF.flow_offsets, nfs.num_hops - 1) = nfs.num_edges

\* three layers, the sorts reordered a layer, and a vertex was sampled whose
\* slice is longer than the fanout
C22_Witness ==
  /\ NFDone /\ nfs.num_hops = 3 /\ nfs.num_edges >= 3
  /\ SortedSubVers # nfs.sub_vers
  /\ SortedNeighPos # nfs.neigh_pos
  /\ \E i \in LayerPositions(1) :
       VerLen(nfs.csr, At(SortedSubVers, i).first) > nfs.num_neighbor

-----------------------------------------------------------------------------
(* Properties of the alias table (checked under SamplerSpec) *)

\* the table the next Draw() selects from: the rebuilt one when that Draw()
\* rebuilds
AliasTableUsed ==
  IF ~replace /\ 2 * sampler.taken >= sampler.accum
    THEN AliasReconstruct(sampler, replace, sampler._prob) ELSE sampler

(* the alias method's selection for the grid point dice on table t: slot
   i = floor(dice), own item when (dice - i) * avg <= U[i] with
   avg = t.accum / t.N, alias item otherwise (U[i] is stored times t.N) *)
AliasMethodPick(t, dice) ==
  LET i == dice \div Grid
      f == dice % Grid
  IN  IF f * t.accum <= At(t.U, i) * Grid
        THEN AliasMap(t, replace, i)
        ELSE AliasMap(t, replace, At(t.K, i))

(* C23: for every value of dice, the next AliasSampler::Draw selects
   Map(i) when (dice - i) * avg <= U[i] and Map(K[i]) otherwise, with U, K
   and avg those of the table it selects from, and it reads U at a slot
   index of [0, N). *)
C23_AliasDrawSelects ==
  (kind = "alias" /\ status = "ok" /\ AliasTableUsed.N > 0) =>
    \A dice \in Uniform(AliasTableUsed.N * Grid) :
      /\ AliasMap(AliasTableUsed, replace, dice \div Grid) < AliasTableUsed.N
      /\ AliasSelect(AliasTableUsed, replace, sampler.accum, sampler.N, dice)
           = {AliasMethodPick(AliasTableUsed, dice)}

\* the same statement for the samplers with replacement
AliasDrawSelectsWithReplacement == replace => C23_AliasDrawSelects

\* the weight of the item that slot j of the current table stands for
SlotWeight(j) == At(prob0, AliasMap(sampler, replace, j))

\* the mass the table gives to the item of slot j, times N: its own slot's
\* share and what the slots aliased to it leave over
SlotMass(j) ==
  (IF At(sampler.K, j) # j THEN At(sampler.U, j) ELSE sampler.accum)
  + SumSeq([k \in 1..sampler.N |->
              IF k - 1 # j /\ At(sampler.K, k - 1) = j
                THEN sampler.accum - At(sampler.U, k - 1) ELSE 0])

(* C24: the alias table built over N items (all of them, or the unused ones
   of a rebuild) has N slots, every slot j has 0 <= U[j] <= avg and K[j] in
   [0, N), and the mass of every item is its weight: U[j] (avg when the slot
   is its own alias) plus avg - U[i] over the other slots i aliased to j.
   U is held times N, so avg reads accum and the weight N * w[j]. *)
C24_AliasTablePreservesMass ==
  (kind = "alias" /\ status = "ok") =>
    /\ sampler.N > 0
    /\ Len(sampler.K) = sampler.N /\ Len(sampler.U) = sampler.N
    /\ \A j \in 0..(sampler.N - 1) :
         /\ 0 <= At(sampler.U, j) /\ At(sampler.U, j) <= sampler.accum
         /\ At(sampler.K, j) \in 0..(sampler.N - 1)
         /\ SlotMass(j) = sampler.N * SlotWeight(j)

\* a larger item filled a slot, dropped below avg and was itself paired
C24_Witness ==
  /\ kind = "alias" /\ status = "ok" /\ sampler.N = 3
  /\ \E j \in 0..2 :
       /\ At(sampler.K, j) # j
       /\ 0 < At(sampler.U, j) /\ At(sampler.U, j) < sampler.accum
       /\ \E i \in 0..2 : i # j /\ At(sampler.K, i) = j

-----------------------------------------------------------------------------
(* The with-replacement CDF and tree samplers against the prefix sums
   (checked under SamplerSpec) *)

\* w[0] + ... + w[i - 1]
Prefix(prob, i) == SumSeq(SubSeq(prob, 1, i))

\* the index i with prefix(i) < p <= prefix(i + 1), the variate 0 counting
\* as the smallest positive value
PrefixIndex(prob, p) ==
  CHOOSE i \in 0..(Len(prob) - 1) :
    IF p = 0 THEN Prefix(prob, i) = 0 /\ Prefix(prob, i + 1) > 0
    ELSE Prefix(prob, i) < p /\ p <= Prefix(prob, i + 1)

\* what Draw() of a with-replacement CDFSampler over prob returns for p
CDFPick(prob, p) == CDFLowerBound(CDFSampler(TRUE, prob).cdf, p) - 1

\* what Draw() of a with-replacement TreeSampler over prob returns for p
TreePick(prob, p) ==
  LET s == TreeSampler(prob) IN TreeDescend(s, 1, p, 0) - s.num_leafs

(* C25: for weights of positive total and every variate p of [0, total)
   the with-replacement CDFSampler and TreeSampler return the same index,
   the one whose prefix-sum interval holds p, and its weight is positive. *)
C25_CDFAndTreeAgree ==
  (replace /\ SumSeq(prob0) > 0) =>
    \A p \in Uniform(SumSeq(prob0)) :
      /\ CDFPick(prob0, p) = PrefixIndex(prob0, p)
      /\ TreePick(prob0, p) = PrefixIndex(prob0, p)
      /\ At(prob0, TreePick(prob0, p)) > 0

\* the same for the CDF sampler alone, and for the tree sampler on the
\* variates other than 0
CDFFollowsPrefix ==
  (replace /\ SumSeq(prob0) > 0) =>
    \A p \in Uniform(SumSeq(prob0)) : CDFPick(prob0, p) = PrefixIndex(prob0, p)

TreeFollowsPrefixAboveZero ==
  (replace /\ SumSeq(prob0) > 0) =>
    \A p \in Uniform(SumSeq(prob0)) \ {0} :
      TreePick(prob0, p) = PrefixIndex(prob0, p)

-----------------------------------------------------------------------------
(* The rebuild policy of the without-replacement Alias and CDF samplers
   (checked under SamplerSpec) *)

Rebuilding == kind \in {"alias", "cdf"} /\ ~replace

\* the weights of the indices in S, added up
WeightOf(S) == SumSeq([k \in 1..Len(prob0) |-> IF k - 1 \in S THEN prob0[k] ELSE 0])

DrawnSet == Range(drawn)

\* the indices of the current table that were drawn since it was built
DrawnSinceRebuild == {i \in Range(sampler.id_mapping) : At(sampler.used, i)}

\* the table proper: what the selection reads
TableOf(s) ==
  IF kind = "alias" THEN <<s.N, s.accum, s.id_mapping, s.K, s.U>>
  ELSE <<s.N, s.accum, s.id_mapping, s.cdf>>

Bookkeeping ==
  (Rebuilding /\ status \in {"ok", "fatal"}) =>
    /\ sampler.taken = WeightOf(DrawnSinceRebuild)
    /\ \A i \in 0..(Len(prob0) - 1) : At(sampler.used, i) <=> i \in DrawnSet

\* a step that is a Draw() which returned an index
DrawStep == lastOp' = "draw" /\ status' = "ok"

RebuildPolicy ==
  (Rebuilding /\ DrawStep) =>
    IF 2 * sampler.taken >= sampler.accum
      THEN /\ sampler'.id_mapping = SetToSortedSeq((0..(Len(prob0) - 1)) \ DrawnSet)
           /\ sampler'.N = Len(prob0) - Cardinality(DrawnSet)
           /\ sampler'.accum = WeightOf((0..(Len(prob0) - 1)) \ DrawnSet)
           /\ sampler'.taken = At(prob0, drawn'[Len(drawn')])
      ELSE /\ TableOf(sampler') = TableOf(sampler)
           /\ sampler'.taken = sampler.taken + At(prob0, drawn'[Len(drawn')])

(* C26: without replacement, a Draw() of an Alias or CDF sampler entered
   with 2 * taken >= accum rebuilds the table from exactly the indices not
   drawn yet (N their number, id_mapping those indices ascending, accum
   their weight, taken restarted) before it selects, and a Draw() entered
   with 2 * taken < accum selects from the table as it is; in every state
   taken is the weight of the indices drawn since the table was built and
   used marks exactly the indices drawn since the last ResetState. *)
C26_RebuildAtHalf == []Bookkeeping /\ [][RebuildPolicy]_vars

\* two indices were drawn from a table of three, the second Draw() having
\* rebuilt it over the two that were left
C26_Witness ==
  /\ Rebuilding /\ status = "ok" /\ Len(prob0) = 3 /\ Len(drawn) = 2
  /\ sampler.N = 2 /\ sampler.taken > 0
  /\ Range(sampler.id_mapping) = (0..2) \ {drawn[1]}

-----------------------------------------------------------------------------
(* The retry loop of the without-replacement Draw() of AliasSampler and
   CDFSampler, one iteration per step.  call holds the position (idle, or
   loop: at the head of while (true)), the avg computed on entry as
   accum0 / N0, and the parity of the number of variates taken so far. *)

\* the indices one iteration of the loop can select, over every variate
LoopPicks ==
  IF kind = "alias"
    THEN UNION {AliasSelect(sampler, FALSE, call.accum0, call.N0, dice) :
                  dice \in Uniform(sampler.N * Grid)}
    ELSE UNION {CDFMap(sampler, FALSE, CDFLowerBound(sampler.cdf, u) - 1, Len(prob0)) :
                  u \in Uniform(sampler.accum)}

InPopulation(rst) == rst >= 0 /\ rst < Len(prob0)

DrawLoopInit ==
  /\ kind \in {"alias", "cdf"}
  /\ replace = FALSE
  /\ prob0 \in SeqsUpTo(Weights, MaxN)
  /\ sampler = NewSampler(kind, replace, prob0)
  /\ drawn = <<>>
  /\ status = "ok"
  /\ lastOp = "construct"
  /\ dirtyReset = FALSE
  /\ nfs = NoNodeFlow /\ sel = NoSelector /\ rw = NoWalk /\ arrs = NoArrays
  /\ call = NoDraw

\* Draw() up to the head of the loop: avg (Alias), the rebuild
LoopEnter ==
  /\ status = "ok" /\ call.pc = "idle"
  /\ Len(drawn) < DrawCap
  /\ LET s1 == IF NeedsRebuild(sampler)
                 THEN (IF kind = "alias"
                         THEN AliasReconstruct(sampler, FALSE, sampler._prob)
                         ELSE CDFReconstruct(sampler, FALSE, sampler._prob))
                 ELSE sampler
     IN  /\ sampler' = s1
         /\ status' = IF s1.N = 0 THEN "fatal" ELSE "ok"
         /\ call' = IF s1.N = 0 THEN NoDraw
                    ELSE [pc |-> "loop", accum0 |-> sampler.accum,
                          N0 |-> sampler.N, odd |-> FALSE]
  /\ lastOp' = "draw"
  /\ UNCHANGED <<kind, replace, prob0, drawn, dirtyReset, nfs, sel, rw, arrs>>

\* an iteration that lands on an unused index: Draw() returns it
LoopAccept ==
  /\ status = "ok" /\ call.pc = "loop"
  /\ \E rst \in LoopPicks :
       /\ InPopulation(rst) /\ IsUnused(sampler, rst)
       /\ sampler' = [sampler EXCEPT !.used[rst + 1] = TRUE,
                                     !.taken = @ + At(sampler._prob, rst)]
       /\ drawn' = Append(drawn, rst)
  /\ call' = NoDraw
  /\ UNCHANGED <<kind, replace, prob0, status, lastOp, dirtyReset, nfs, sel, rw, arrs>>

\* an iteration that lands on a used index: the loop goes round
LoopReject ==
  /\ status = "ok" /\ call.pc = "loop"
  /\ \E rst \in LoopPicks : InPopulation(rst) /\ ~IsUnused(sampler, rst)
  /\ call' = [call EXCEPT !.odd = ~@]
  /\ UNCHANGED <<svars, nfs, sel, rw, arrs>>

\* an iteration whose index was read past the end of id_mapping
LoopStray ==
  /\ status = "ok" /\ call.pc = "loop"
  /\ \E rst \in LoopPicks : ~InPopulation(rst)
  /\ status' = "ub"
  /\ call' = NoDraw
  /\ UNCHANGED <<kind, replace, prob0, sampler, drawn, lastOp, dirtyReset,
                 nfs, sel, rw, arrs>>

LoopReset ==
  /\ status = "ok" /\ call.pc = "idle"
  /\ sampler' = ResetState(kind, sampler, replace, prob0)
  /\ drawn' = <<>>
  /\ lastOp' = "reset"
  /\ dirtyReset' = (drawn # <<>>)
  /\ UNCHANGED <<kind, replace, prob0, status, nfs, ovars>>

DrawLoopNext == LoopEnter \/ LoopAccept \/ LoopReject \/ LoopStray \/ LoopReset

(* the generator is fair: a variate that lets the loop end, possible at
   every iteration, is eventually produced *)
DrawLoopSpec == DrawLoopInit /\ [][DrawLoopNext]_vars /\ WF_vars(LoopAccept)

\* the indices of the current table that were not drawn yet
UnusedInTable == {i \in Range(sampler.id_mapping) : ~At(sampler.used, i)}

InLoop == call.pc = "loop" /\ AllPositive(prob0)

LoopMajority == InLoop => 2 * WeightOf(UnusedInTable) > sampler.accum

\* some variate ends the loop whatever a read past the end of U yields
AcceptanceNeedsNoStrayRead ==
  (InLoop /\ kind = "alias") =>
    \E dice \in Uniform(sampler.N * Grid) :
      \A r \in AliasSelect(sampler, FALSE, call.accum0, call.N0, dice) :
        InPopulation(r) /\ IsUnused(sampler, r)

(* C27: without replacement and with positive weights, whenever the retry
   loop of an Alias or CDF Draw() runs, the indices not drawn yet hold more
   than half of the weight of the table it selects from, and under a fair
   generator the Draw() returns. *)
C27_DrawReturns == []LoopMajority /\ (InLoop ~> call.pc = "idle")

\* the loop went round on a used index of a table of three positive weights
C27_Witness ==
  /\ InLoop /\ call.odd /\ Len(prob0) = 3
  /\ Len(drawn) = 1 /\ sampler.N = 3

-----------------------------------------------------------------------------
(* Row order of the NodeFlow (checked under NodeFlowSpec) *)

StrictlyAscending(v) == \A i \in 1..(Len(v) - 1) : v[i] < v[i + 1]

\* every adjacency slice of the input CSR is strictly ascending
AscendingSlices ==
  \A v \in 0..(NumVertices(nfs.csr) - 1) : StrictlyAscending(VidList(nfs.csr, v))

(* C28: when every adjacency slice of the input CSR lists its neighbor ids
   in strictly ascending order, every row of the compact adjacency of the
   NodeFlow lists its local column ids in strictly ascending order. *)
C28_RowsAscending ==
  (NFDone /\ AscendingSlices) =>
    \A r \in 0..(Len(NF.node_mapping) - 1) : StrictlyAscending(NFRow(r))

\* a row of two columns sampled from a slice of three, in a layer whose
\* vertices were reached in another order than that of their ids
C28_Witness ==
  /\ NFDone /\ AscendingSlices /\ nfs.num_neighbor = 2
  /\ SortedSubVers # nfs.sub_vers
  /\ \E r \in 0..(Len(NF.node_mapping) - 1) :
       /\ Len(NFRow(r)) = 2
       /\ VerLen(nfs.csr, At(NF.node_mapping, r)) = 3

-----------------------------------------------------------------------------
(* ArrayHeap over the weights of a slice (checked under SelectorSpec) *)

\* sp_prob: the weights of the slice's neighbors
SpProb == [i \in 1..sel.ver_len |-> At(sel.probability, sel.vid_list[i])]

\* every inner node is the sum of its two children
SumTree(h) ==
  \A i \in 1..(h.limit_ - 1) :
    At(h.heap_, i) = At(h.heap_, 2 * i) + At(h.heap_, 2 * i + 1)

RECURSIVE HeapsAfter(_, _)
\* the heaps that up to n rounds of Sample and Delete can leave
HeapsAfter(h, n) ==
  IF n = 0 THEN {h}
  ELSE {h} \cup UNION {HeapsAfter(ArrayHeapDelete(h, x), n - 1) :
                         x \in {ArrayHeapSample(h, r) : r \in 0..(RandMod - 1)}}

\* the call of SampleWithoutReplacement that GetNonUniformSample is about
\* to make, with enough positive weights for it
HeapCall ==
  /\ sel.pc = "call" /\ sel.mode = "weighted"
  /\ ~CopiesVerbatim(sel.ver_len, sel.max_num_neighbor)
  /\ PositiveNeighbors >= sel.max_num_neighbor

(* C29: over a weight vector of size m with at least n positive entries,
   SampleWithoutReplacement(n) returns, for every value of the draws, n
   pairwise distinct indices of [0, m) whose weights are positive, and the
   heap is a sum tree after every Delete. *)
C29_HeapSamplesDistinctPositive ==
  HeapCall =>
    /\ \A samples \in SampleWithoutReplacement(ArrayHeap(SpProb),
                                               sel.max_num_neighbor, <<>>) :
         /\ Len(samples) = sel.max_num_neighbor
         /\ Distinct(samples)
         /\ \A q \in 1..Len(samples) : /\ samples[q] \in 0..(sel.ver_len - 1)
                                       /\ At(SpProb, samples[q]) > 0
    /\ \A h \in HeapsAfter(ArrayHeap(SpProb), sel.max_num_neighbor) : SumTree(h)

\* two of three neighbors sampled from a heap with a padding leaf and a
\* leaf of weight zero
C29_Witness ==
  /\ Returned /\ sel.mode = "weighted" /\ ~sel.oob
  /\ sel.ver_len = 3 /\ sel.max_num_neighbor = 2
  /\ PositiveNeighbors = 2
  /\ Len(sel.out_ver) = 2
  /\ ArrayHeap(SpProb).limit_ = 4

============================================================================
